---- MODULE Spec2Model ----
(***************************************************************************)
(* Model of the chunking engine of Social Threader (js/core/chunking.js).   *)
(* A JavaScript string is modelled as a sequence of characters, each        *)
(* character being a one-element TLA+ string; the few non-ASCII characters  *)
(* the source names are modelled by the named values below.                 *)
(***************************************************************************)
EXTENDS Integers, Sequences, FiniteSets, TLC

\* ------------------------------------------------------------------------
\* Bounds of the model
\* ------------------------------------------------------------------------
MaxLen == 4
MaxMarkupLen == 3
MaxNegative == 2
MaxLimit == 9
MaxIterations == 4
MaxStatisticsLen == 5
MaxQuotedWords == 3
MaxSplitLen == 4
MaxSplitLimit == 4
MaxPieces == 6
MaxWords == 3
MaxLines == 3
MaxLongWords == 10
MaxTokenizerLen == 5
MaxDocumentItems == 4
MaxImageLimit == 13
MaxPendingWrites == 2
MaxCopies == 3

\* ------------------------------------------------------------------------
\* Characters and character classes
\* ------------------------------------------------------------------------
NBSP == "nbsp"
ELLIPSIS == "ellipsis"
LINE_SEP == "u2028"
PARA_SEP == "u2029"
NEL == "u0085"
VTAB == "u000b"
BACKTICK == "backtick"

LowerLetters == <<"a","b","c","d","e","f","g","h","i","j","k","l","m",
                  "n","o","p","q","r","s","t","u","v","w","x","y","z">>
UpperLetters == <<"A","B","C","D","E","F","G","H","I","J","K","L","M",
                  "N","O","P","Q","R","S","T","U","V","W","X","Y","Z">>
Digits == <<"0","1","2","3","4","5","6","7","8","9">>

Range(f) == {f[i] : i \in DOMAIN f}

IsLower(c) == c \in Range(LowerLetters)
IsUpper(c) == c \in Range(UpperLetters)
IsLetter(c) == IsLower(c) \/ IsUpper(c)
IsDigit(c) == c \in Range(Digits)

\* String.prototype.toLowerCase / toUpperCase on one character
ToLowerChar(c) ==
    IF IsUpper(c) THEN LowerLetters[CHOOSE i \in DOMAIN UpperLetters : UpperLetters[i] = c] ELSE c
ToUpperChar(c) ==
    IF IsLower(c) THEN UpperLetters[CHOOSE i \in DOMAIN LowerLetters : LowerLetters[i] = c] ELSE c
ToLowerCase(s) == [i \in DOMAIN s |-> ToLowerChar(s[i])]

\* the class \s of a JavaScript regular expression, which is also what trim() removes
IsWhitespace(c) == c \in {" ", "\t", "\n", "\r", "\f", VTAB, NBSP, LINE_SEP, PARA_SEP}

Max(a, b) == IF a >= b THEN a ELSE b
Min(a, b) == IF a <= b THEN a ELSE b

\* ------------------------------------------------------------------------
\* String primitives of JavaScript
\* ------------------------------------------------------------------------
\* String.prototype.trim
Trim(s) ==
    LET first == IF \E i \in DOMAIN s : ~IsWhitespace(s[i])
                 THEN CHOOSE i \in DOMAIN s :
                        /\ ~IsWhitespace(s[i])
                        /\ \A j \in 1..(i - 1) : IsWhitespace(s[j])
                 ELSE Len(s) + 1
        last  == IF \E i \in DOMAIN s : ~IsWhitespace(s[i])
                 THEN CHOOSE i \in DOMAIN s :
                        /\ ~IsWhitespace(s[i])
                        /\ \A j \in (i + 1)..Len(s) : IsWhitespace(s[j])
                 ELSE Len(s)
    IN  SubSeq(s, first, last)

\* String.prototype.slice(start, end) with 0-based, possibly negative, indices
Slice(s, start, end) ==
    LET from == IF start < 0 THEN Max(Len(s) + start, 0) ELSE Min(start, Len(s))
        to   == IF end < 0 THEN Max(Len(s) + end, 0) ELSE Min(end, Len(s))
    IN  SubSeq(s, from + 1, to)

\* Array.prototype.join(separator)
RECURSIVE Join(_, _)
Join(parts, separator) ==
    IF Len(parts) = 0 THEN <<>>
    ELSE IF Len(parts) = 1 THEN parts[1]
    ELSE parts[1] \o separator \o Join(Tail(parts), separator)

\* concatenation of a list of lists (push(...items) over a loop)
RECURSIVE Flatten(_)
Flatten(lists) ==
    IF Len(lists) = 0 THEN <<>> ELSE lists[1] \o Flatten(Tail(lists))

\* String.prototype.split(separatorCharacter)
RECURSIVE Split(_, _)
Split(s, separator) ==
    IF \E i \in DOMAIN s : s[i] = separator
    THEN LET at == CHOOSE i \in DOMAIN s :
                     s[i] = separator /\ \A j \in 1..(i - 1) : s[j] # separator
         IN  <<SubSeq(s, 1, at - 1)>> \o Split(SubSeq(s, at + 1, Len(s)), separator)
    ELSE <<s>>

\* replace(/\s+/g, " "): every maximal run of whitespace becomes one space
RECURSIVE CollapseWhitespace(_)
CollapseWhitespace(s) ==
    IF Len(s) = 0 THEN <<>>
    ELSE IF IsWhitespace(s[1])
         THEN IF Len(s) > 1 /\ IsWhitespace(s[2])
              THEN CollapseWhitespace(Tail(s))
              ELSE <<" ">> \o CollapseWhitespace(Tail(s))
         ELSE <<s[1]>> \o CollapseWhitespace(Tail(s))

\* replace(/\t+/g, " "): every maximal run of tabs becomes one space
RECURSIVE CollapseTabs(_)
CollapseTabs(s) ==
    IF Len(s) = 0 THEN <<>>
    ELSE IF s[1] = "\t"
         THEN IF Len(s) > 1 /\ s[2] = "\t"
              THEN CollapseTabs(Tail(s))
              ELSE <<" ">> \o CollapseTabs(Tail(s))
         ELSE <<s[1]>> \o CollapseTabs(Tail(s))

\* replace(/\u00a0/g, " ")
ReplaceNbsp(s) == [i \in DOMAIN s |-> IF s[i] = NBSP THEN " " ELSE s[i]]

\* String(number) for a non-negative integer
RECURSIVE NumberToString(_)
NumberToString(n) ==
    IF n < 10 THEN <<Digits[n + 1]>>
    ELSE NumberToString(n \div 10) \o <<Digits[(n % 10) + 1]>>

\* ------------------------------------------------------------------------
\* Constants of chunking.js
\* ------------------------------------------------------------------------
TRAILING_WRAPPING_CHARACTERS == {"\"", "'", ")", "]", "}"}
LEADING_PUNCTUATION_TO_IGNORE ==
    {"\"", "'", "(", "[", "{", "ldquo", "rdquo", "lsquo", "rsquo", BACKTICK}
SENTENCE_TERMINATORS == {".", "!", "?"}
BREAK_PUNCTUATION == {".", ",", "!", "?", ";"}
BULLET_MARKERS == {"-", "*", "+", "bullet", "tribullet", "whitebullet"}

STRICT_NON_TERMINATING_ABBREVIATIONS ==
    { <<"c","a","p","t",".">>, <<"d","r",".">>, <<"g","o","v",".">>,
      <<"h","o","n",".">>, <<"j","r",".">>, <<"l","t",".">>, <<"m","r",".">>,
      <<"m","r","s",".">>, <<"m","s",".">>, <<"p","r","o","f",".">>,
      <<"s","r",".">>, <<"s","t",".">> }

FLEXIBLE_ABBREVIATIONS ==
    { <<"a","p","p","r","o","x",".">>, <<"a","p","p","t",".">>, <<"a","v","e",".">>,
      <<"c","o","r","p",".">>, <<"e","t","c",".">>, <<"f","i","g",".">>,
      <<"i","n","c",".">>, <<"v","s",".">>, <<"i",".","e",".">>, <<"e",".","g",".">>,
      <<"u",".","s",".">>, <<"u",".","k",".">>, <<"a",".","m",".">>,
      <<"p",".","m",".">>, <<"n","o",".">>, <<"v","o","l",".">> }

\* TEXT_CONTENT.ENUMERATION_TEMPLATE = "{text} ({current}/{total})"
TEXT_PLACEHOLDER == <<"{","t","e","x","t","}">>
CURRENT_PLACEHOLDER == <<"{","c","u","r","r","e","n","t","}">>
TOTAL_PLACEHOLDER == <<"{","t","o","t","a","l","}">>
ENUMERATION_TEMPLATE ==
    TEXT_PLACEHOLDER \o <<" ", "(">> \o CURRENT_PLACEHOLDER \o <<"/">>
        \o TOTAL_PLACEHOLDER \o <<")">>

\* ------------------------------------------------------------------------
\* Text normalizer
\* ------------------------------------------------------------------------
IsLineSeparator(c) == c \in {"\r", "\n", LINE_SEP, PARA_SEP, NEL, VTAB, "\f"}

\* replace(LINE_SEPARATOR_PATTERN, replacement): "\r\n" counts as one separator
RECURSIVE ReplaceLineSeparators(_, _)
ReplaceLineSeparators(s, replacement) ==
    IF Len(s) = 0 THEN <<>>
    ELSE IF Len(s) > 1 /\ s[1] = "\r" /\ s[2] = "\n"
         THEN <<replacement>> \o ReplaceLineSeparators(SubSeq(s, 3, Len(s)), replacement)
    ELSE IF IsLineSeparator(s[1])
         THEN <<replacement>> \o ReplaceLineSeparators(Tail(s), replacement)
    ELSE <<s[1]>> \o ReplaceLineSeparators(Tail(s), replacement)

\* replace(/\n[^\S\n]+\n/g, "\n\n"): matches are found left to right and do not overlap
RECURSIVE CollapseWhitespaceOnlyLines(_)
CollapseWhitespaceOnlyLines(s) ==
    IF Len(s) = 0 THEN <<>>
    ELSE IF s[1] = "\n"
            /\ \E k \in 3..Len(s) :
                  /\ s[k] = "\n"
                  /\ \A j \in 2..(k - 1) : IsWhitespace(s[j]) /\ s[j] # "\n"
         THEN LET k == CHOOSE k \in 3..Len(s) :
                          /\ s[k] = "\n"
                          /\ \A j \in 2..(k - 1) : IsWhitespace(s[j]) /\ s[j] # "\n"
              IN  <<"\n", "\n">> \o CollapseWhitespaceOnlyLines(SubSeq(s, k + 1, Len(s)))
         ELSE <<s[1]>> \o CollapseWhitespaceOnlyLines(Tail(s))

normalizeLineSeparators(rawText) ==
    CollapseWhitespaceOnlyLines(ReplaceLineSeparators(rawText, "\n"))

sanitizeLineContent(lineContent) == Trim(CollapseTabs(lineContent))

RECURSIVE stripTrailingWrappingCharacters(_)
stripTrailingWrappingCharacters(token) ==
    IF Len(token) > 0 /\ token[Len(token)] \in TRAILING_WRAPPING_CHARACTERS
    THEN stripTrailingWrappingCharacters(SubSeq(token, 1, Len(token) - 1))
    ELSE token

\* ------------------------------------------------------------------------
\* Patterns
\* ------------------------------------------------------------------------
\* SENTENCE_TERMINATOR_PATTERN /[.!?]+$/
MatchesSentenceTerminator(s) == Len(s) > 0 /\ s[Len(s)] \in SENTENCE_TERMINATORS

\* ELLIPSIS_PATTERN /\u2026|\.\.\.$/
MatchesEllipsis(s) ==
    \/ \E i \in DOMAIN s : s[i] = ELLIPSIS
    \/ Len(s) >= 3 /\ \A i \in (Len(s) - 2)..Len(s) : s[i] = "."

\* DECIMAL_LIKE_PATTERN /^\d+\.\d+$/
MatchesDecimalLike(s) ==
    \E k \in 2..(Len(s) - 1) :
        /\ s[k] = "."
        /\ \A i \in 1..(k - 1) : IsDigit(s[i])
        /\ \A i \in (k + 1)..Len(s) : IsDigit(s[i])

\* ORDINAL_NUMBER_PATTERN /^\d+(?:st|nd|rd|th)?\.$/i
MatchesOrdinalNumber(s) ==
    /\ Len(s) >= 2
    /\ s[Len(s)] = "."
    /\ LET body == ToLowerCase(SubSeq(s, 1, Len(s) - 1))
           AllDigits(t) == Len(t) >= 1 /\ \A i \in DOMAIN t : IsDigit(t[i])
       IN  \/ AllDigits(body)
           \/ /\ Len(body) >= 3
              /\ SubSeq(body, Len(body) - 1, Len(body))
                    \in { <<"s","t">>, <<"n","d">>, <<"r","d">>, <<"t","h">> }
              /\ AllDigits(SubSeq(body, 1, Len(body) - 2))

\* MULTI_INITIAL_PATTERN /^(?:[a-z]\.){2,}$/i
MatchesMultiInitial(s) ==
    /\ Len(s) >= 4
    /\ Len(s) % 2 = 0
    /\ \A i \in DOMAIN s : IF i % 2 = 1 THEN IsLetter(s[i]) ELSE s[i] = "."

\* SINGLE_INITIAL_PATTERN /^[a-z]\.$/i
MatchesSingleInitial(s) == Len(s) = 2 /\ IsLetter(s[1]) /\ s[2] = "."

\* LIST_MARKER_PATTERN: a bullet, digits or one letter followed by . or ), then whitespace
MatchesListMarker(s) ==
    \/ Len(s) >= 2 /\ s[1] \in BULLET_MARKERS /\ IsWhitespace(s[2])
    \/ Len(s) >= 3 /\ IsLetter(s[1]) /\ s[2] \in {".", ")"} /\ IsWhitespace(s[3])
    \/ \E k \in 2..(Len(s) - 1) :
          /\ \A i \in 1..(k - 1) : IsDigit(s[i])
          /\ s[k] \in {".", ")"}
          /\ IsWhitespace(s[k + 1])

\* ------------------------------------------------------------------------
\* Abbreviations and sentence ends
\* ------------------------------------------------------------------------
\* the listed flexible abbreviations looked up before the patterns of initials
classifyAbbreviationFlexibleFirst(token) ==
    LET normalizedToken == ToLowerCase(stripTrailingWrappingCharacters(token))
    IN  IF Len(normalizedToken) = 0 THEN "null"
        ELSE IF normalizedToken \in STRICT_NON_TERMINATING_ABBREVIATIONS THEN "strict"
        ELSE IF normalizedToken \in FLEXIBLE_ABBREVIATIONS THEN "flexible"
        ELSE IF MatchesMultiInitial(normalizedToken) THEN "strict"
        ELSE IF MatchesSingleInitial(normalizedToken) THEN "strict"
        ELSE "null"

classifyAbbreviation(token) ==
    LET normalizedToken == ToLowerCase(stripTrailingWrappingCharacters(token))
    IN  IF Len(normalizedToken) = 0 THEN "null"
        ELSE IF normalizedToken \in STRICT_NON_TERMINATING_ABBREVIATIONS THEN "strict"
        ELSE IF MatchesMultiInitial(normalizedToken) THEN "strict"
        ELSE IF MatchesSingleInitial(normalizedToken) THEN "strict"
        ELSE IF normalizedToken \in FLEXIBLE_ABBREVIATIONS THEN "flexible"
        ELSE "null"

isDecimalNotation(token) ==
    MatchesDecimalLike(ToLowerCase(stripTrailingWrappingCharacters(token)))

\* the first character that is not leading punctuation, "" when there is none
getFirstSignificantCharacter(value) ==
    IF \E i \in DOMAIN value : value[i] \notin LEADING_PUNCTUATION_TO_IGNORE
    THEN value[CHOOSE i \in DOMAIN value :
                  /\ value[i] \notin LEADING_PUNCTUATION_TO_IGNORE
                  /\ \A j \in 1..(i - 1) : value[j] \in LEADING_PUNCTUATION_TO_IGNORE]
    ELSE ""

\* a terminated line followed by any alphanumeric character, lowercase included
shouldStartNewParagraphAtAnyCase(previousLine, currentLine) ==
    IF MatchesListMarker(currentLine) THEN TRUE
    ELSE LET strippedPrevious == stripTrailingWrappingCharacters(previousLine)
             firstCharacter == getFirstSignificantCharacter(currentLine)
         IN  IF Len(strippedPrevious) = 0 THEN FALSE
             ELSE IF ~MatchesSentenceTerminator(strippedPrevious) THEN FALSE
             ELSE IF firstCharacter = "" THEN FALSE
             ELSE IsLetter(firstCharacter) \/ IsDigit(firstCharacter)

shouldStartNewParagraph(previousLine, currentLine) ==
    IF MatchesListMarker(currentLine) THEN TRUE
    ELSE LET strippedPrevious == stripTrailingWrappingCharacters(previousLine)
             firstCharacter == getFirstSignificantCharacter(currentLine)
         IN  IF Len(strippedPrevious) = 0 THEN FALSE
             ELSE IF ~MatchesSentenceTerminator(strippedPrevious) THEN FALSE
             ELSE IF firstCharacter = "" THEN FALSE
             ELSE IF ~(IsLetter(firstCharacter) \/ IsDigit(firstCharacter)) THEN FALSE
             ELSE ToUpperChar(firstCharacter) = firstCharacter

\* an ellipsis taken as a pause inside the sentence
isSentenceEndEllipsisContinues(word, nextWord, currentSentenceLength) ==
    LET strippedWord == stripTrailingWrappingCharacters(word)
        abbreviationType == classifyAbbreviation(strippedWord)
        nextLead == getFirstSignificantCharacter(Trim(nextWord))
    IN  IF Len(strippedWord) = 0 THEN FALSE
        ELSE IF ~MatchesSentenceTerminator(strippedWord) THEN FALSE
        ELSE IF MatchesEllipsis(strippedWord) THEN FALSE
        ELSE IF isDecimalNotation(strippedWord) THEN FALSE
        ELSE IF MatchesOrdinalNumber(strippedWord) /\ currentSentenceLength <= 1 THEN FALSE
        ELSE IF abbreviationType = "strict" THEN FALSE
        ELSE IF abbreviationType = "flexible"
             THEN IF nextLead = "" THEN TRUE
                  ELSE IF ToLowerChar(nextLead) = nextLead THEN FALSE
                  ELSE TRUE
        ELSE TRUE

\* an ordinal number kept from ending a sentence at any position
isSentenceEndOrdinalAnywhere(word, nextWord, currentSentenceLength) ==
    LET strippedWord == stripTrailingWrappingCharacters(word)
        abbreviationType == classifyAbbreviation(strippedWord)
        nextLead == getFirstSignificantCharacter(Trim(nextWord))
    IN  IF Len(strippedWord) = 0 THEN FALSE
        ELSE IF ~MatchesSentenceTerminator(strippedWord) THEN FALSE
        ELSE IF MatchesEllipsis(strippedWord) THEN TRUE
        ELSE IF isDecimalNotation(strippedWord) THEN FALSE
        ELSE IF MatchesOrdinalNumber(strippedWord) THEN FALSE
        ELSE IF abbreviationType = "strict" THEN FALSE
        ELSE IF abbreviationType = "flexible"
             THEN IF nextLead = "" THEN TRUE
                  ELSE IF ToLowerChar(nextLead) = nextLead THEN FALSE
                  ELSE TRUE
        ELSE TRUE

\* an absent next word (undefined) is modelled by the empty sequence
isSentenceEnd(word, nextWord, currentSentenceLength) ==
    LET strippedWord == stripTrailingWrappingCharacters(word)
        abbreviationType == classifyAbbreviation(strippedWord)
        nextLead == getFirstSignificantCharacter(Trim(nextWord))
    IN  IF Len(strippedWord) = 0 THEN FALSE
        ELSE IF ~MatchesSentenceTerminator(strippedWord) THEN FALSE
        ELSE IF MatchesEllipsis(strippedWord) THEN TRUE
        ELSE IF isDecimalNotation(strippedWord) THEN FALSE
        ELSE IF MatchesOrdinalNumber(strippedWord) /\ currentSentenceLength <= 1 THEN FALSE
        ELSE IF abbreviationType = "strict" THEN FALSE
        ELSE IF abbreviationType = "flexible"
             THEN IF nextLead = "" THEN TRUE
                  ELSE IF ToLowerChar(nextLead) = nextLead THEN FALSE
                  ELSE TRUE
        ELSE TRUE

\* ------------------------------------------------------------------------
\* Paragraph segmenter
\* ------------------------------------------------------------------------
\* the for loop of extractParagraphs over the remaining lines
RECURSIVE ParagraphLoop(_, _, _, _)
ParagraphLoop(lines, paragraphs, currentParagraphLines, previousLineBlank) ==
    IF Len(lines) = 0
    THEN IF Len(currentParagraphLines) > 0
         THEN Append(paragraphs, Trim(Join(currentParagraphLines, <<" ">>)))
         ELSE paragraphs
    ELSE LET normalizedLine == sanitizeLineContent(lines[1])
             isBlankLine == Len(normalizedLine) = 0
             closed == Append(paragraphs, Trim(Join(currentParagraphLines, <<" ">>)))
         IN  IF isBlankLine
             THEN IF Len(currentParagraphLines) > 0
                  THEN ParagraphLoop(Tail(lines), closed, <<>>, TRUE)
                  ELSE ParagraphLoop(Tail(lines), paragraphs, currentParagraphLines, TRUE)
             ELSE IF Len(currentParagraphLines) = 0
             THEN ParagraphLoop(Tail(lines), paragraphs, <<normalizedLine>>, FALSE)
             ELSE IF previousLineBlank
                     \/ shouldStartNewParagraph(
                            currentParagraphLines[Len(currentParagraphLines)], normalizedLine)
             THEN ParagraphLoop(Tail(lines), closed, <<normalizedLine>>, FALSE)
             ELSE ParagraphLoop(Tail(lines), paragraphs,
                                Append(currentParagraphLines, normalizedLine), FALSE)

extractParagraphs(rawText) ==
    IF Len(Trim(rawText)) = 0 THEN <<>>
    ELSE ParagraphLoop(Split(normalizeLineSeparators(ReplaceNbsp(rawText)), "\n"),
                       <<>>, <<>>, FALSE)

\* ------------------------------------------------------------------------
\* Word tokenizer
\* ------------------------------------------------------------------------
NormalizeForWords(textString) ==
    Trim(CollapseWhitespace(ReplaceNbsp(ReplaceLineSeparators(textString, " "))))

\* the loop with every space taken as a separator, quoted or not
RECURSIVE WordLoopIgnoringQuotes(_, _, _, _)
WordLoopIgnoringQuotes(characters, wordsArray, currentWord, insideQuote) ==
    IF Len(characters) = 0
    THEN IF Len(currentWord) > 0 THEN Append(wordsArray, currentWord) ELSE wordsArray
    ELSE LET character == characters[1]
         IN  IF character = " "
             THEN IF Len(currentWord) > 0
                  THEN WordLoopIgnoringQuotes(Tail(characters),
                                              Append(wordsArray, currentWord), <<>>,
                                              insideQuote)
                  ELSE WordLoopIgnoringQuotes(Tail(characters), wordsArray, currentWord,
                                              insideQuote)
             ELSE WordLoopIgnoringQuotes(Tail(characters), wordsArray,
                                         Append(currentWord, character), insideQuote)

\* the for loop of splitIntoWordsPreservingPunctuation over the remaining characters
RECURSIVE WordLoop(_, _, _, _)
WordLoop(characters, wordsArray, currentWord, insideQuote) ==
    IF Len(characters) = 0
    THEN IF Len(currentWord) > 0 THEN Append(wordsArray, currentWord) ELSE wordsArray
    ELSE LET character == characters[1]
         IN  IF character = " " /\ ~insideQuote
             THEN IF Len(currentWord) > 0
                  THEN WordLoop(Tail(characters), Append(wordsArray, currentWord), <<>>, insideQuote)
                  ELSE WordLoop(Tail(characters), wordsArray, currentWord, insideQuote)
             ELSE WordLoop(Tail(characters), wordsArray, Append(currentWord, character),
                           IF character = "\"" THEN ~insideQuote ELSE insideQuote)

splitIntoWordsPreservingPunctuation(textString) ==
    LET normalizedText == NormalizeForWords(textString)
    IN  IF Len(normalizedText) = 0 THEN <<>>
        ELSE WordLoop(normalizedText, <<>>, <<>>, FALSE)

\* ------------------------------------------------------------------------
\* Sentence aggregator
\* ------------------------------------------------------------------------
\* the for loop of buildSentences from position index (1-based)
RECURSIVE SentenceLoop(_, _, _, _)
SentenceLoop(wordsArray, index, sentencesArray, currentSentence) ==
    IF index > Len(wordsArray)
    THEN IF Len(currentSentence) > 0
         THEN Append(sentencesArray, Join(currentSentence, <<" ">>))
         ELSE sentencesArray
    ELSE LET withWord == Append(currentSentence, wordsArray[index])
             nextWord == IF index + 1 <= Len(wordsArray) THEN wordsArray[index + 1] ELSE <<>>
         IN  IF isSentenceEnd(wordsArray[index], nextWord, Len(withWord))
             THEN SentenceLoop(wordsArray, index + 1,
                               Append(sentencesArray, Join(withWord, <<" ">>)), <<>>)
             ELSE SentenceLoop(wordsArray, index + 1, sentencesArray, withWord)

buildSentences(wordsArray, useSentenceBreak) ==
    IF ~useSentenceBreak THEN << Join(wordsArray, <<" ">>) >>
    ELSE SentenceLoop(wordsArray, 1, <<>>, <<>>)

\* ------------------------------------------------------------------------
\* Overflow splitter
\* ------------------------------------------------------------------------
IsBreakCharacter(c) == c = " " \/ c \in BREAK_PUNCTUATION

\* the backward search started one character too far
FindBreakIndexFromBeyondCap(remainingText, maximumLength) ==
    LET candidates == {i \in 0..(maximumLength + 1) :
                          i < Len(remainingText) /\ IsBreakCharacter(remainingText[i + 1])}
    IN  IF candidates = {} THEN 0 - 1
        ELSE CHOOSE i \in candidates : \A j \in candidates : j <= i

\* the backward search for a break: the largest 0-based index in 0..maximumLength whose
\* character is a break character, -1 when there is none (charAt past the end is "")
FindBreakIndex(remainingText, maximumLength) ==
    LET candidates == {i \in 0..maximumLength :
                          i < Len(remainingText) /\ IsBreakCharacter(remainingText[i + 1])}
    IN  IF candidates = {} THEN 0 - 1
        ELSE CHOOSE i \in candidates : \A j \in candidates : j <= i

\* a break found at index 0 taken as a clean break
NextPieceAcceptingIndexZero(remainingText, maximumLength) ==
    LET breakIndex == FindBreakIndex(remainingText, maximumLength)
    IN  IF breakIndex >= 0
        THEN Trim(Slice(remainingText, 0, breakIndex))
        ELSE Slice(remainingText, 0, maximumLength)

\* the piece pushed by one iteration of the while loop, and the text left after it
NextPiece(remainingText, maximumLength) ==
    LET breakIndex == FindBreakIndex(remainingText, maximumLength)
    IN  IF breakIndex > 0
        THEN Trim(Slice(remainingText, 0, breakIndex))
        ELSE Slice(remainingText, 0, maximumLength)

\* the text left after a piece kept with its leading space
NextRemainingUntrimmed(remainingText, maximumLength) ==
    LET breakIndex == FindBreakIndex(remainingText, maximumLength)
    IN  IF breakIndex > 0
        THEN Slice(remainingText, breakIndex, Len(remainingText))
        ELSE Slice(remainingText, maximumLength, Len(remainingText))

NextRemaining(remainingText, maximumLength) ==
    LET breakIndex == FindBreakIndex(remainingText, maximumLength)
    IN  IF breakIndex > 0
        THEN Trim(Slice(remainingText, breakIndex, Len(remainingText)))
        ELSE Trim(Slice(remainingText, maximumLength, Len(remainingText)))

\* the loop emitting the rest uncut when no clean break is found
RECURSIVE ChunkLoopEmittingUncut(_, _)
ChunkLoopEmittingUncut(remainingText, maximumLength) ==
    IF Len(remainingText) = 0 THEN <<>>
    ELSE IF Len(remainingText) <= maximumLength THEN <<remainingText>>
    ELSE IF FindBreakIndex(remainingText, maximumLength) <= 0 THEN <<remainingText>>
    ELSE <<NextPiece(remainingText, maximumLength)>>
            \o ChunkLoopEmittingUncut(NextRemaining(remainingText, maximumLength),
                                      maximumLength)

\* the while loop of chunkByLength
RECURSIVE ChunkLoop(_, _)
ChunkLoop(remainingText, maximumLength) ==
    IF Len(remainingText) = 0 THEN <<>>
    ELSE IF Len(remainingText) <= maximumLength THEN <<remainingText>>
    ELSE <<NextPiece(remainingText, maximumLength)>>
            \o ChunkLoop(NextRemaining(remainingText, maximumLength), maximumLength)

chunkByLength(sentenceText, maximumLength) ==
    ChunkLoop(Trim(CollapseWhitespace(sentenceText)), maximumLength)

\* ------------------------------------------------------------------------
\* Enumeration
\* ------------------------------------------------------------------------
\* 1-based position of the first occurrence of pattern in s, 0 when there is none
IndexOf(s, pattern) ==
    LET hits == {i \in 1..(Len(s) - Len(pattern) + 1) :
                    SubSeq(s, i, i + Len(pattern) - 1) = pattern}
    IN  IF hits = {} THEN 0 ELSE CHOOSE i \in hits : \A j \in hits : i <= j

\* the substitution String.prototype.replace performs on a replacement string when the
\* pattern is a string: $$ is a dollar, $& the match, $` the text before the match,
\* $' the text after it; with no capture groups every other $ stays as it is
RECURSIVE GetSubstitution(_, _, _, _)
GetSubstitution(replacement, matched, before, after) ==
    IF Len(replacement) = 0 THEN <<>>
    ELSE IF replacement[1] = "$" /\ Len(replacement) >= 2
              /\ replacement[2] \in {"$", "&", BACKTICK, "'"}
         THEN (CASE replacement[2] = "$" -> <<"$">>
                 [] replacement[2] = "&" -> matched
                 [] replacement[2] = BACKTICK -> before
                 [] replacement[2] = "'" -> after)
              \o GetSubstitution(SubSeq(replacement, 3, Len(replacement)),
                                 matched, before, after)
         ELSE <<replacement[1]>>
              \o GetSubstitution(Tail(replacement), matched, before, after)

\* String.prototype.replace(pattern, replacement) with a string pattern: first match only
StringReplace(s, pattern, replacement) ==
    LET at == IndexOf(s, pattern)
        before == SubSeq(s, 1, at - 1)
        after == SubSeq(s, at + Len(pattern), Len(s))
    IN  IF at = 0 THEN s
        ELSE before \o GetSubstitution(replacement, pattern, before, after) \o after

enumerateChunk(chunkText, chunkIndex, totalChunks) ==
    StringReplace(
        StringReplace(
            StringReplace(ENUMERATION_TEMPLATE, TEXT_PLACEHOLDER, chunkText),
            CURRENT_PLACEHOLDER, NumberToString(chunkIndex + 1)),
        TOTAL_PLACEHOLDER, NumberToString(totalChunks))

\* an overhead that grows with every chunk instead of every digit of the count
getMaximumEnumerationOverheadPerChunk(totalChunks) ==
    IF totalChunks <= 0 THEN 0
    ELSE Len(enumerateChunk(<<>>, totalChunks - 1, totalChunks)) + 2 * (totalChunks - 1)

getMaximumEnumerationOverhead(totalChunks) ==
    IF totalChunks <= 0 THEN 0
    ELSE Len(enumerateChunk(<<>>, totalChunks - 1, totalChunks))

\* ------------------------------------------------------------------------
\* Length packer
\* ------------------------------------------------------------------------
\* the clamp taking the magnitude of a negative maximum length
AvailableLengthOfMagnitude(maximumLength) ==
    Max(1, IF maximumLength < 0 THEN 0 - maximumLength ELSE maximumLength)

\* Math.max(1, options.maximumLength)
AvailableLength(maximumLength) == Max(1, maximumLength)

\* the buffer pushed to the chunks when it is not empty
Flush(baseChunks, currentChunk) ==
    IF Len(currentChunk) > 0 THEN Append(baseChunks, currentChunk) ELSE baseChunks

\* the oversized branch with the buffer dropped instead of flushed
ChunksAfterOversizedWithoutFlush(baseChunks, currentChunk, sentence, availableLength) ==
    baseChunks \o chunkByLength(sentence, availableLength)

\* the branch for a sentence longer than the cap: flush the buffer, then push the pieces
ChunksAfterOversized(baseChunks, currentChunk, sentence, availableLength) ==
    Flush(baseChunks, currentChunk) \o chunkByLength(sentence, availableLength)

\* the loop beginning a new chunk with every sentence
RECURSIVE PackLoopSentencePerChunk(_, _, _, _)
PackLoopSentencePerChunk(sentencesArray, availableLength, baseChunks, currentChunk) ==
    IF Len(sentencesArray) = 0
    THEN Flush(baseChunks, currentChunk)
    ELSE LET sentence == sentencesArray[1]
         IN  IF Len(sentence) > availableLength
             THEN PackLoopSentencePerChunk(
                      Tail(sentencesArray), availableLength,
                      ChunksAfterOversized(baseChunks, currentChunk, sentence,
                                           availableLength),
                      <<>>)
             ELSE PackLoopSentencePerChunk(Tail(sentencesArray), availableLength,
                                           Flush(baseChunks, currentChunk), sentence)

\* the for loop of buildBaseChunks over the remaining sentences
RECURSIVE PackLoop(_, _, _, _)
PackLoop(sentencesArray, availableLength, baseChunks, currentChunk) ==
    IF Len(sentencesArray) = 0
    THEN Flush(baseChunks, currentChunk)
    ELSE LET sentence == sentencesArray[1]
             potentialChunk == IF Len(currentChunk) > 0
                               THEN currentChunk \o <<" ">> \o sentence
                               ELSE sentence
         IN  IF Len(sentence) > availableLength
             THEN PackLoop(Tail(sentencesArray), availableLength,
                           ChunksAfterOversized(baseChunks, currentChunk, sentence,
                                                availableLength),
                           <<>>)
             ELSE IF Len(potentialChunk) <= availableLength
             THEN PackLoop(Tail(sentencesArray), availableLength, baseChunks, potentialChunk)
             ELSE PackLoop(Tail(sentencesArray), availableLength,
                           Flush(baseChunks, currentChunk), sentence)

\* buildBaseChunks with breakOnParagraphs false
PackSpan(rawText, options) ==
    LET wordsArray == splitIntoWordsPreservingPunctuation(rawText)
    IN  IF Len(wordsArray) = 0 THEN <<>>
        ELSE PackLoop(buildSentences(wordsArray, options.breakOnSentences),
                      AvailableLength(options.maximumLength), <<>>, <<>>)

\* the paragraphs packed together as one span
PackParagraphsTogether(paragraphs, options) ==
    PackSpan(Join(paragraphs, <<" ">>), [options EXCEPT !.breakOnParagraphs = FALSE])

\* the paragraph branch: each non-empty paragraph packed with breakOnParagraphs forced false
PackParagraphs(paragraphs, options) ==
    Flatten([i \in DOMAIN paragraphs |->
                IF Len(paragraphs[i]) = 0 THEN <<>>
                ELSE PackSpan(paragraphs[i], [options EXCEPT !.breakOnParagraphs = FALSE])])

buildBaseChunks(rawText, options) ==
    IF options.breakOnParagraphs
    THEN PackParagraphs(extractParagraphs(rawText), options)
    ELSE PackSpan(rawText, options)

\* baseChunks.map((chunkText, index) => enumerateChunk(chunkText, index, baseChunks.length))
EnumerateAll(baseChunks) ==
    [i \in DOMAIN baseChunks |-> enumerateChunk(baseChunks[i], i - 1, Len(baseChunks))]

\* Math.max(1, options.maximumLength - enumerationOverhead)
NextEffectiveMaximumLength(maximumLength, chunkCount) ==
    Max(1, maximumLength - getMaximumEnumerationOverhead(chunkCount))

\* let effectiveMaximumLength = Math.max(1, options.maximumLength)
InitialEffectiveMaximumLength(maximumLength) == Max(1, maximumLength)

\* getChunks as one function of its inputs: the loop below runs until the effective
\* length is stable
RECURSIVE EnumerationLoop(_, _, _)
EnumerationLoop(rawText, options, effectiveLength) ==
    LET chunks == buildBaseChunks(rawText, [options EXCEPT !.maximumLength = effectiveLength])
        nextLength == NextEffectiveMaximumLength(options.maximumLength, Len(chunks))
    IN  IF Len(chunks) = 0 THEN <<>>
        ELSE IF nextLength = effectiveLength THEN EnumerateAll(chunks)
        ELSE EnumerationLoop(rawText, options, nextLength)

getChunks(rawText, options) ==
    IF ~options.enumerate THEN buildBaseChunks(rawText, options)
    ELSE EnumerationLoop(rawText, options,
                         InitialEffectiveMaximumLength(options.maximumLength))

\* ------------------------------------------------------------------------
\* Statistics calculator
\* ------------------------------------------------------------------------
\* the character count taken from the trimmed text
calculateStatisticsOfTrimmedText(chunkText) ==
    LET trimmedInput == Trim(chunkText)
        paragraphMatches == extractParagraphs(chunkText)
        wordsArray == splitIntoWordsPreservingPunctuation(chunkText)
        sentenceCount == Len(buildSentences(wordsArray, TRUE))
    IN  [characters |-> Len(trimmedInput),
         words |-> Len(wordsArray),
         sentences |-> sentenceCount,
         paragraphs |-> IF Len(trimmedInput) = 0 THEN 0 ELSE Len(paragraphMatches)]

calculateStatistics(chunkText) ==
    LET trimmedInput == Trim(chunkText)
        paragraphMatches == extractParagraphs(chunkText)
        wordsArray == splitIntoWordsPreservingPunctuation(chunkText)
        sentenceCount == Len(buildSentences(wordsArray, TRUE))
    IN  [characters |-> Len(chunkText),
         words |-> Len(wordsArray),
         sentences |-> sentenceCount,
         paragraphs |-> IF Len(trimmedInput) = 0 THEN 0 ELSE Len(paragraphMatches)]

\* ------------------------------------------------------------------------
\* Inputs
\* ------------------------------------------------------------------------
Alphabet == {"a", "B", " ", "!", "\n"}
MarkupAlphabet == {"a", "$", "&", "'"}

StringsOver(characters, maximum) == UNION {[1..n -> characters] : n \in 0..maximum}

Texts == StringsOver(Alphabet, MaxLen) \cup StringsOver(MarkupAlphabet, MaxMarkupLen)

Limits == (0 - MaxNegative)..MaxLimit

ThreadingOptions ==
    [maximumLength : Limits, breakOnSentences : BOOLEAN,
     breakOnParagraphs : BOOLEAN, enumerate : BOOLEAN]

\* texts of words and quotation marks: up to MaxQuotedWords items joined by single spaces
QuotedItems == { <<"a">>, <<"\"", "a">>, <<"a", "\"">>, <<"\"", "a", "\"">> }
QuotedTexts ==
    {Join(items, <<" ">>) : items \in StringsOver(QuotedItems, MaxQuotedWords)}

SplitterAlphabet == {"a", " ", "!"}
SplitterTexts == StringsOver(SplitterAlphabet, MaxSplitLen)
SplitterCaps == (0 - MaxNegative)..MaxSplitLimit

\* tokens for the sentence aggregator: titles, initials, listed abbreviations, ellipses,
\* ordinals, a decimal, plain words, tokens of punctuation only and the empty token
SentenceTokens ==
    { <<"D","r",".">>, <<"a",".">>, <<"u",".","s",".">>,
      <<"e","t","c",".">>, <<"e","t","c",".",")">>,
      <<"B">>, <<"a">>, <<"(">>, <<"(","B">>, <<>>,
      <<"a",".",".",".">>, <<"a",ELLIPSIS>>, <<ELLIPSIS,".">>,
      <<"1",".">>, <<"2","n","d",".">>, <<"1",".","5">>, <<"a","!">> }
TokenSequences == StringsOver(SentenceTokens, MaxWords)

StatisticsAlphabet == {"a", " ", "\"", ".", "\n"}
StatisticsTexts == StringsOver(StatisticsAlphabet, MaxStatisticsLen)

\* ------------------------------------------------------------------------
\* One call of getChunks as a state machine
\* ------------------------------------------------------------------------
\* pc is the position of the call in progress; the other variables are the arguments
\* and locals of getChunks, calculateStatistics, chunkByLength and buildSentences
VARIABLES rawText, options, pc, effectiveMaximumLength, baseChunks, result, iterations,
          chunkText, statistics,
          sentenceText, maximumLength, remainingText, resultChunks,
          wordsArray, useSentenceBreak, index, currentSentence, sentencesArray,
          paragraphSource, lines, lineNumber, paragraphs, currentParagraphLines,
          previousLineBlank,
          textString, wordTokens,
          imageRecords, renderableChunks,
          editorText, currentDocumentSnapshot, toggleDisabled, toggleChecked, state,
          autoRechunkEnabled, rechunkTimeoutId, pendingAnimationFrame, renderedChunks,
          pendingWrites, chunkOptions

getChunksVars == <<rawText, options, effectiveMaximumLength, baseChunks, result, iterations>>
statisticsVars == <<chunkText, statistics>>
splitterVars == <<sentenceText, maximumLength, remainingText, resultChunks>>
sentenceVars == <<wordsArray, useSentenceBreak, index, currentSentence, sentencesArray>>
paragraphVars == <<paragraphSource, lines, lineNumber, paragraphs, currentParagraphLines,
                   previousLineBlank>>
tokenizerVars == <<textString, wordTokens>>
richTextVars == <<imageRecords, renderableChunks>>
controllerVars == <<editorText, currentDocumentSnapshot, toggleDisabled, toggleChecked, state,
                    autoRechunkEnabled, rechunkTimeoutId, pendingAnimationFrame,
                    renderedChunks, pendingWrites, chunkOptions>>

otherVars == <<paragraphVars, tokenizerVars, richTextVars, controllerVars>>

vars == <<pc, getChunksVars, statisticsVars, splitterVars, sentenceVars, otherVars>>

\* the variables of the functions that are not being called
NoGetChunksCall ==
    /\ rawText = <<>>
    /\ options = [maximumLength |-> 1, breakOnSentences |-> FALSE,
                  breakOnParagraphs |-> FALSE, enumerate |-> FALSE]
    /\ effectiveMaximumLength = 0
    /\ baseChunks = <<>>
    /\ result = <<>>
    /\ iterations = 0

NoStatisticsCall == chunkText = <<>> /\ statistics = <<>>

NoSplitterCall ==
    sentenceText = <<>> /\ maximumLength = 1 /\ remainingText = <<>> /\ resultChunks = <<>>

NoSentencesCall ==
    /\ wordsArray = <<>>
    /\ useSentenceBreak = FALSE
    /\ index = 0
    /\ currentSentence = <<>>
    /\ sentencesArray = <<>>

NoParagraphsCall ==
    /\ paragraphSource = <<>>
    /\ lines = <<>>
    /\ lineNumber = 0
    /\ paragraphs = <<>>
    /\ currentParagraphLines = <<>>
    /\ previousLineBlank = FALSE

NoTokenizerCall == textString = <<>> /\ wordTokens = <<>>

NoRichTextCall == imageRecords = <<>> /\ renderableChunks = <<>>

\* DEFAULT_LENGTHS.TWITTER, the active length of a new controller
DEFAULT_LENGTHS_TWITTER == 280

\* the state object the controller's constructor builds
ConstructedState ==
    [activeLength |-> DEFAULT_LENGTHS_TWITTER, breakOnSentences |-> FALSE,
     enumerate |-> FALSE, breakOnParagraphs |-> FALSE, copySequenceNumber |-> 0]

NoControllerCall ==
    /\ editorText = <<>>
    /\ currentDocumentSnapshot = <<>>
    /\ toggleDisabled = FALSE
    /\ toggleChecked = FALSE
    /\ state = ConstructedState
    /\ autoRechunkEnabled = FALSE
    /\ rechunkTimeoutId = "null"
    /\ pendingAnimationFrame = 0
    /\ renderedChunks = <<>>
    /\ pendingWrites = {}
    /\ chunkOptions = <<>>

OtherCallsIdle ==
    /\ NoStatisticsCall
    /\ NoSplitterCall
    /\ NoSentencesCall
    /\ NoParagraphsCall
    /\ NoTokenizerCall
    /\ NoRichTextCall
    /\ NoControllerCall

Init ==
    /\ rawText \in Texts
    /\ options \in ThreadingOptions
    /\ pc = "start"
    /\ effectiveMaximumLength = 0
    /\ baseChunks = <<>>
    /\ result = <<>>
    /\ iterations = 0
    /\ OtherCallsIdle

\* enumerate is off: the result is the base chunks
ReturnBaseChunks ==
    /\ pc = "start"
    /\ ~options.enumerate
    /\ result' = buildBaseChunks(rawText, options)
    /\ pc' = "done"
    /\ UNCHANGED <<rawText, options, effectiveMaximumLength, baseChunks, iterations>>
    /\ UNCHANGED <<statisticsVars, splitterVars, sentenceVars, paragraphVars, tokenizerVars, richTextVars, controllerVars>>

\* enumerate is on: the loop starts from the clamped maximum length
StartEnumeration ==
    /\ pc = "start"
    /\ options.enumerate
    /\ effectiveMaximumLength' = InitialEffectiveMaximumLength(options.maximumLength)
    /\ pc' = "loop"
    /\ UNCHANGED <<rawText, options, baseChunks, result, iterations>>
    /\ UNCHANGED <<statisticsVars, splitterVars, sentenceVars, paragraphVars, tokenizerVars, richTextVars, controllerVars>>

PackedNow == buildBaseChunks(rawText, [options EXCEPT !.maximumLength = effectiveMaximumLength])

\* the comparison that never finds the effective length stable
EffectiveLengthIsStableNever(nextEffectiveMaximumLength, currentEffectiveMaximumLength) ==
    nextEffectiveMaximumLength > currentEffectiveMaximumLength

\* the loop ends when the next effective length equals the current one
EffectiveLengthIsStable(nextEffectiveMaximumLength, currentEffectiveMaximumLength) ==
    nextEffectiveMaximumLength = currentEffectiveMaximumLength

\* a pass that packs nothing and goes on to the rest of the loop body
PackNothingWithoutReturn ==
    /\ pc = "loop"
    /\ iterations < MaxIterations
    /\ Len(PackedNow) = 0
    /\ baseChunks' = PackedNow
    /\ iterations' = iterations + 1
    /\ pc' = "enumerate"
    /\ UNCHANGED <<rawText, options, effectiveMaximumLength, result>>
    /\ UNCHANGED <<statisticsVars, splitterVars, sentenceVars, paragraphVars, tokenizerVars, richTextVars, controllerVars>>

\* a pass of the loop that packs nothing returns the empty list
PackNothing ==
    /\ pc = "loop"
    /\ iterations < MaxIterations
    /\ Len(PackedNow) = 0
    /\ baseChunks' = PackedNow
    /\ result' = <<>>
    /\ iterations' = iterations + 1
    /\ pc' = "done"
    /\ UNCHANGED <<rawText, options, effectiveMaximumLength>>
    /\ UNCHANGED <<statisticsVars, splitterVars, sentenceVars, paragraphVars, tokenizerVars, richTextVars, controllerVars>>

\* a pass of the loop after which the effective length changes
PackAndShrink ==
    /\ pc = "loop"
    /\ iterations < MaxIterations
    /\ Len(PackedNow) # 0
    /\ ~EffectiveLengthIsStable(
            NextEffectiveMaximumLength(options.maximumLength, Len(PackedNow)),
            effectiveMaximumLength)
    /\ baseChunks' = PackedNow
    /\ effectiveMaximumLength' = NextEffectiveMaximumLength(options.maximumLength, Len(PackedNow))
    /\ iterations' = iterations + 1
    /\ UNCHANGED <<rawText, options, pc, result>>
    /\ UNCHANGED <<statisticsVars, splitterVars, sentenceVars, paragraphVars, tokenizerVars, richTextVars, controllerVars>>

\* a pass of the loop that ends the loop whatever the next effective length is
PackAndBreakAtOnce ==
    /\ pc = "loop"
    /\ iterations < MaxIterations
    /\ Len(PackedNow) # 0
    /\ baseChunks' = PackedNow
    /\ iterations' = iterations + 1
    /\ pc' = "enumerate"
    /\ UNCHANGED <<rawText, options, effectiveMaximumLength, result>>
    /\ UNCHANGED <<statisticsVars, splitterVars, sentenceVars, paragraphVars, tokenizerVars, richTextVars, controllerVars>>

\* a pass of the loop that leaves the effective length as it is ends the loop
PackAndBreak ==
    /\ pc = "loop"
    /\ iterations < MaxIterations
    /\ Len(PackedNow) # 0
    /\ EffectiveLengthIsStable(
            NextEffectiveMaximumLength(options.maximumLength, Len(PackedNow)),
            effectiveMaximumLength)
    /\ baseChunks' = PackedNow
    /\ iterations' = iterations + 1
    /\ pc' = "enumerate"
    /\ UNCHANGED <<rawText, options, effectiveMaximumLength, result>>
    /\ UNCHANGED <<statisticsVars, splitterVars, sentenceVars, paragraphVars, tokenizerVars, richTextVars, controllerVars>>

\* the final map over the base chunks
ReturnEnumerated ==
    /\ pc = "enumerate"
    /\ result' = EnumerateAll(baseChunks)
    /\ pc' = "done"
    /\ UNCHANGED <<rawText, options, effectiveMaximumLength, baseChunks, iterations>>
    /\ UNCHANGED <<statisticsVars, splitterVars, sentenceVars, paragraphVars, tokenizerVars, richTextVars, controllerVars>>

Next ==
    \/ ReturnBaseChunks
    \/ StartEnumeration
    \/ PackNothing
    \/ PackAndShrink
    \/ PackAndBreak
    \/ ReturnEnumerated

Spec == Init /\ [][Next]_vars

TypeOK ==
    /\ pc \in {"start", "loop", "enumerate", "statistics", "split", "sentences",
               "paragraphs", "lines", "tokenize", "rendered",
               "constructed", "ready", "done"}
    /\ iterations \in Nat
    /\ effectiveMaximumLength \in Nat

\* one call of getChunks on a text with quoted phrases
QuotedInit ==
    /\ rawText \in QuotedTexts
    /\ options \in ThreadingOptions
    /\ pc = "start"
    /\ effectiveMaximumLength = 0
    /\ baseChunks = <<>>
    /\ result = <<>>
    /\ iterations = 0
    /\ OtherCallsIdle

QuotedSpec == QuotedInit /\ [][Next]_vars

\* ------------------------------------------------------------------------
\* One call of calculateStatistics
\* ------------------------------------------------------------------------
StatisticsInit ==
    /\ pc = "statistics"
    /\ chunkText \in StatisticsTexts
    /\ statistics = <<>>
    /\ NoGetChunksCall
    /\ NoSplitterCall
    /\ NoSentencesCall
    /\ NoParagraphsCall
    /\ NoTokenizerCall
    /\ NoRichTextCall
    /\ NoControllerCall

CalculateStatistics ==
    /\ pc = "statistics"
    /\ statistics' = calculateStatistics(chunkText)
    /\ pc' = "done"
    /\ UNCHANGED <<chunkText, getChunksVars, splitterVars, sentenceVars, paragraphVars, tokenizerVars, richTextVars, controllerVars>>

StatisticsNext == CalculateStatistics

StatisticsSpec == StatisticsInit /\ [][StatisticsNext]_vars

\* ------------------------------------------------------------------------
\* One direct call of chunkByLength, one action per iteration of its while loop
\* ------------------------------------------------------------------------
SplitterInit ==
    /\ pc = "split"
    /\ sentenceText \in SplitterTexts
    /\ maximumLength \in SplitterCaps
    /\ remainingText = Trim(CollapseWhitespace(sentenceText))
    /\ resultChunks = <<>>
    /\ NoGetChunksCall
    /\ NoStatisticsCall
    /\ NoSentencesCall
    /\ NoParagraphsCall
    /\ NoTokenizerCall
    /\ NoRichTextCall
    /\ NoControllerCall

\* the loop condition fails: the pieces are returned
ReturnResultChunks ==
    /\ pc = "split"
    /\ Len(remainingText) = 0
    /\ pc' = "done"
    /\ UNCHANGED <<getChunksVars, statisticsVars, splitterVars, sentenceVars, paragraphVars, tokenizerVars, richTextVars, controllerVars>>

\* the rest fits the cap: it is pushed and the loop is left
PushRemainder ==
    /\ pc = "split"
    /\ Len(remainingText) > 0
    /\ Len(remainingText) <= maximumLength
    /\ resultChunks' = Append(resultChunks, remainingText)
    /\ pc' = "done"
    /\ UNCHANGED <<sentenceText, maximumLength, remainingText>>
    /\ UNCHANGED <<getChunksVars, statisticsVars, sentenceVars, paragraphVars, tokenizerVars, richTextVars, controllerVars>>

\* a break character was found at a positive index: cut there, trimming both sides
CutAtBreak ==
    /\ pc = "split"
    /\ Len(resultChunks) < MaxPieces
    /\ Len(remainingText) > 0
    /\ Len(remainingText) > maximumLength
    /\ FindBreakIndex(remainingText, maximumLength) > 0
    /\ resultChunks' = Append(resultChunks, NextPiece(remainingText, maximumLength))
    /\ remainingText' = NextRemaining(remainingText, maximumLength)
    /\ UNCHANGED <<pc, sentenceText, maximumLength>>
    /\ UNCHANGED <<getChunksVars, statisticsVars, sentenceVars, paragraphVars, tokenizerVars, richTextVars, controllerVars>>

\* no break character at a positive index: cut at the cap
HardCut ==
    /\ pc = "split"
    /\ Len(resultChunks) < MaxPieces
    /\ Len(remainingText) > 0
    /\ Len(remainingText) > maximumLength
    /\ FindBreakIndex(remainingText, maximumLength) <= 0
    /\ resultChunks' = Append(resultChunks, NextPiece(remainingText, maximumLength))
    /\ remainingText' = NextRemaining(remainingText, maximumLength)
    /\ UNCHANGED <<pc, sentenceText, maximumLength>>
    /\ UNCHANGED <<getChunksVars, statisticsVars, sentenceVars, paragraphVars, tokenizerVars, richTextVars, controllerVars>>

SplitterNext ==
    \/ ReturnResultChunks
    \/ PushRemainder
    \/ CutAtBreak
    \/ HardCut

SplitterSpec == SplitterInit /\ [][SplitterNext]_vars

\* ------------------------------------------------------------------------
\* One call of buildSentences, one action per iteration of its for loop
\* ------------------------------------------------------------------------
SentencesInit ==
    /\ pc = "sentences"
    /\ wordsArray \in TokenSequences
    /\ useSentenceBreak \in BOOLEAN
    /\ index = 0
    /\ currentSentence = <<>>
    /\ sentencesArray = <<>>
    /\ NoGetChunksCall
    /\ NoStatisticsCall
    /\ NoSplitterCall
    /\ NoParagraphsCall
    /\ NoTokenizerCall
    /\ NoRichTextCall
    /\ NoControllerCall

\* the word at the (0-based) index, the word after it (<<>> when absent) and the
\* decision taken on the word once it is pushed to the current sentence
Word == wordsArray[index + 1]
NextWord == IF index + 1 < Len(wordsArray) THEN wordsArray[index + 2] ELSE <<>>
WordEndsSentence == isSentenceEnd(Word, NextWord, Len(currentSentence) + 1)

\* sentence breaking is off: all the words joined are the one sentence
ReturnSingleSentence ==
    /\ pc = "sentences"
    /\ ~useSentenceBreak
    /\ sentencesArray' = << Join(wordsArray, <<" ">>) >>
    /\ pc' = "done"
    /\ UNCHANGED <<wordsArray, useSentenceBreak, index, currentSentence>>
    /\ UNCHANGED <<getChunksVars, statisticsVars, splitterVars, paragraphVars, tokenizerVars, richTextVars, controllerVars>>

\* the word ends the sentence: the sentence is pushed and a new one started
TakeWordAndEndSentence ==
    /\ pc = "sentences"
    /\ useSentenceBreak
    /\ index < Len(wordsArray)
    /\ WordEndsSentence
    /\ sentencesArray' = Append(sentencesArray, Join(Append(currentSentence, Word), <<" ">>))
    /\ currentSentence' = <<>>
    /\ index' = index + 1
    /\ UNCHANGED <<pc, wordsArray, useSentenceBreak>>
    /\ UNCHANGED <<getChunksVars, statisticsVars, splitterVars, paragraphVars, tokenizerVars, richTextVars, controllerVars>>

\* the word does not end the sentence
TakeWordAndContinue ==
    /\ pc = "sentences"
    /\ useSentenceBreak
    /\ index < Len(wordsArray)
    /\ ~WordEndsSentence
    /\ currentSentence' = Append(currentSentence, Word)
    /\ index' = index + 1
    /\ UNCHANGED <<pc, wordsArray, useSentenceBreak, sentencesArray>>
    /\ UNCHANGED <<getChunksVars, statisticsVars, splitterVars, paragraphVars, tokenizerVars, richTextVars, controllerVars>>

\* the words are used up and the sentences returned without the unfinished one
ReturnWithoutFlush ==
    /\ pc = "sentences"
    /\ useSentenceBreak
    /\ index >= Len(wordsArray)
    /\ pc' = "done"
    /\ UNCHANGED <<getChunksVars, statisticsVars, splitterVars, sentenceVars, paragraphVars, tokenizerVars, richTextVars, controllerVars>>

\* the words are used up: an unfinished sentence is pushed and the sentences returned
FlushAndReturn ==
    /\ pc = "sentences"
    /\ useSentenceBreak
    /\ index >= Len(wordsArray)
    /\ sentencesArray' =
          IF Len(currentSentence) > 0
          THEN Append(sentencesArray, Join(currentSentence, <<" ">>))
          ELSE sentencesArray
    /\ pc' = "done"
    /\ UNCHANGED <<wordsArray, useSentenceBreak, index, currentSentence>>
    /\ UNCHANGED <<getChunksVars, statisticsVars, splitterVars, paragraphVars, tokenizerVars, richTextVars, controllerVars>>

SentencesNext ==
    \/ ReturnSingleSentence
    \/ TakeWordAndEndSentence
    \/ TakeWordAndContinue
    \/ FlushAndReturn

SentencesSpec == SentencesInit /\ [][SentencesNext]_vars

\* ------------------------------------------------------------------------
\* Properties
\* ------------------------------------------------------------------------
Done == pc = "done"

\* the text with every whitespace character and line separator deleted
Squeeze(s) == SelectSeq(s, LAMBDA c : ~IsWhitespace(c) /\ ~IsLineSeparator(c))

\* the suffix " (i/N)" of the i-th of N chunks
EnumerationSuffix(i, total) ==
    <<" ", "(">> \o NumberToString(i) \o <<"/">> \o NumberToString(total) \o <<")">>

\* a returned chunk without the characters of its enumeration suffix
WithoutSuffix(chunk, i, total) ==
    SubSeq(chunk, 1, Len(chunk) - Len(EnumerationSuffix(i, total)))

UnderlyingText(chunks, enumerated) ==
    [i \in DOMAIN chunks |->
        IF enumerated THEN WithoutSuffix(chunks[i], i, Len(chunks)) ELSE chunks[i]]

\* the spans the packer works on, and the sentences it detects in them
PackedSpans ==
    IF options.breakOnParagraphs THEN extractParagraphs(rawText) ELSE <<rawText>>

DetectedSentences ==
    Flatten([i \in DOMAIN PackedSpans |->
        LET tokens == splitIntoWordsPreservingPunctuation(PackedSpans[i])
        IN  IF Len(tokens) = 0 THEN <<>>
            ELSE buildSentences(tokens, options.breakOnSentences)])

\* C1: with enumerate off, every returned chunk is at most max(1, maximumLength) long
C1_LengthBound ==
    (Done /\ ~options.enumerate) =>
        \A i \in DOMAIN result : Len(result[i]) <= Max(1, options.maximumLength)

\* C1 witness: a sentence longer than the cap went through the overflow splitter
C1_Witness ==
    /\ Done /\ ~options.enumerate
    /\ \E i \in DOMAIN DetectedSentences :
          Len(DetectedSentences[i]) > Max(1, options.maximumLength)
    /\ Len(result) >= 2
    /\ \E i \in DOMAIN result : Len(result[i]) = Max(1, options.maximumLength)

\* C2: with enumerate on and a maximum length that leaves room for text beside the
\* suffix, every returned chunk, suffix included, is at most maximumLength long
C2_EnumeratedLengthBound ==
    (Done /\ options.enumerate
          /\ options.maximumLength > getMaximumEnumerationOverhead(Len(result))) =>
        \A i \in DOMAIN result : Len(result[i]) <= options.maximumLength

\* C3: the returned chunks, without their suffixes and without whitespace, spell the
\* input without whitespace
C3_Coverage ==
    Done => Squeeze(Flatten(UnderlyingText(result, options.enumerate))) = Squeeze(rawText)

\* C4: with enumerate on, the i-th returned chunk is the i-th base chunk of the final
\* pass followed by " (i/N)", N being the number of chunks
C4_EnumerationFormat ==
    (Done /\ options.enumerate) =>
        /\ Len(result) = Len(baseChunks)
        /\ \A i \in DOMAIN result :
              result[i] = baseChunks[i] \o EnumerationSuffix(i, Len(baseChunks))

\* the disjunction of the guards of the actions of Next
SomeStepEnabled ==
    \/ pc = "start"
    \/ pc = "loop" /\ iterations < MaxIterations
    \/ pc = "enumerate"

C6_NoEmptyChunk ==
    /\ \A i \in DOMAIN result : Len(result[i]) > 0
    /\ \A i \in DOMAIN baseChunks : Len(baseChunks[i]) > 0

\* C6 witness: a maximum length below 1 with an oversized sentence split into pieces
C6_Witness ==
    /\ Done /\ options.maximumLength <= 0
    /\ \E i \in DOMAIN DetectedSentences : Len(DetectedSentences[i]) > 1
    /\ Len(result) >= 3

\* the chunks split into consecutive groups, one per paragraph, each group spelling
\* its paragraph
RECURSIVE GroupsSpellParagraphs(_, _)
GroupsSpellParagraphs(chunks, spans) ==
    IF Len(spans) = 0 THEN Len(chunks) = 0
    ELSE \E k \in 1..Len(chunks) :
            /\ Squeeze(Flatten(SubSeq(chunks, 1, k))) = Squeeze(spans[1])
            /\ GroupsSpellParagraphs(SubSeq(chunks, k + 1, Len(chunks)), Tail(spans))

\* C7: with breakOnParagraphs on and enumerate off the result is the concatenation of
\* the packings of the paragraphs, so every chunk lies inside one paragraph
C7_ParagraphPacking ==
    (Done /\ options.breakOnParagraphs /\ ~options.enumerate) =>
        LET spans == extractParagraphs(rawText)
        IN  /\ result = Flatten([i \in DOMAIN spans |->
                          getChunks(spans[i],
                                    [options EXCEPT !.breakOnParagraphs = FALSE])])
            /\ GroupsSpellParagraphs(result, spans)

\* C7 witness: two paragraphs that would have fitted one chunk are kept apart
C7_Witness ==
    /\ Done /\ options.breakOnParagraphs /\ ~options.enumerate
    /\ Len(extractParagraphs(rawText)) >= 2
    /\ Len(NormalizeForWords(rawText)) <= Max(1, options.maximumLength)
    /\ Len(result) = Len(extractParagraphs(rawText))

\* the chunks read as runs of whole sentences, or as the pieces of one oversized sentence
RECURSIVE WholeSentencesOrPieces(_, _, _)
WholeSentencesOrPieces(chunks, sentences, cap) ==
    IF Len(sentences) = 0 THEN Len(chunks) = 0
    ELSE IF Len(chunks) = 0 THEN FALSE
    ELSE IF Len(sentences[1]) <= cap
    THEN \E k \in 1..Len(sentences) :
            /\ \A j \in 1..k : Len(sentences[j]) <= cap
            /\ chunks[1] = Join(SubSeq(sentences, 1, k), <<" ">>)
            /\ WholeSentencesOrPieces(Tail(chunks),
                                      SubSeq(sentences, k + 1, Len(sentences)), cap)
    ELSE \E m \in 1..Len(chunks) :
            /\ Squeeze(Flatten(SubSeq(chunks, 1, m))) = Squeeze(sentences[1])
            /\ WholeSentencesOrPieces(SubSeq(chunks, m + 1, Len(chunks)),
                                      Tail(sentences), cap)

\* C8: with breakOnSentences on and enumerate off, every chunk is a space-joined run of
\* whole sentences that fit the cap or a piece of one sentence that exceeds it
C8_SentenceIntegrity ==
    (Done /\ options.breakOnSentences /\ ~options.enumerate) =>
        WholeSentencesOrPieces(result, DetectedSentences, Max(1, options.maximumLength))

\* C8 witness: a fitting sentence next to an oversized one
C8_Witness ==
    /\ Done /\ options.breakOnSentences /\ ~options.enumerate
    /\ Len(DetectedSentences) >= 2
    /\ \E i \in DOMAIN DetectedSentences :
          Len(DetectedSentences[i]) <= Max(1, options.maximumLength)
    /\ \E i \in DOMAIN DetectedSentences :
          Len(DetectedSentences[i]) > Max(1, options.maximumLength)

\* C9: a maximum length of 0 or less gives the chunks that a maximum length of 1 gives
C9_ClampToOne ==
    (Done /\ options.maximumLength <= 0) =>
        result = getChunks(rawText, [options EXCEPT !.maximumLength = 1])

\* C9 witness: a call with a maximum length below 1 that returned several chunks
C9_Witness == Done /\ options.maximumLength < 0 /\ Len(result) >= 2

\* C10: empty or whitespace-only input gives the empty list; with enumerate on the call
\* returns after the first packing pass
C10_EmptyInput ==
    Len(Trim(rawText)) = 0 =>
        /\ result = <<>>
        /\ baseChunks = <<>>
        /\ iterations <= 1
        /\ iterations = 1 => Done

\* C10 witness: whitespace-only input with enumerate on, after its only pass
C10_Witness ==
    /\ Done /\ options.enumerate /\ iterations = 1
    /\ Len(rawText) > 0 /\ Len(Trim(rawText)) = 0

\* the number of maximal runs of characters that are neither whitespace nor line breaks
CountWhitespaceSeparatedWords(text) ==
    Cardinality({i \in DOMAIN text :
        /\ ~IsWhitespace(text[i]) /\ ~IsLineSeparator(text[i])
        /\ (i = 1 \/ IsWhitespace(text[i - 1]) \/ IsLineSeparator(text[i - 1]))})

C14_QuotedWordsCounted ==
    (pc = "done" /\ statistics # <<>>) =>
        statistics.words = CountWhitespaceSeparatedWords(chunkText)

\* the position in text of its n-th character that is not whitespace, 0 when there are
\* fewer than n
PositionOfNonSpace(text, n) ==
    LET hits == {i \in DOMAIN text :
                    /\ ~IsWhitespace(text[i])
                    /\ Cardinality({j \in 1..i : ~IsWhitespace(text[j])}) = n}
    IN  IF hits = {} THEN 0 ELSE CHOOSE i \in hits : TRUE

\* the length budget of the packing pass that produced the result
FinalBudget ==
    IF options.enumerate THEN effectiveMaximumLength ELSE Max(1, options.maximumLength)

\* C12: no chunk after the first starts with one of , . ! ? ; that in the input directly
\* follows a word character: the mark stays at the end of the chunk holding its word
\* (stated for budgets of 2 or more, which have room for a character and its mark)
C12_PunctuationStaysWithWord ==
    (Done /\ FinalBudget >= 2) =>
        LET normalizedText == NormalizeForWords(rawText)
            chunks == UnderlyingText(result, options.enumerate)
        IN  \A i \in 2..Len(chunks) :
                (Len(chunks[i]) > 0 /\ chunks[i][1] \in BREAK_PUNCTUATION) =>
                    LET consumed == Len(Squeeze(Flatten(SubSeq(chunks, 1, i - 1))))
                        at == PositionOfNonSpace(normalizedText, consumed + 1)
                    IN  at > 1 => IsBreakCharacter(normalizedText[at - 1])

\* the tokens of the spans the packer works on
DetectedTokens ==
    Flatten([i \in DOMAIN PackedSpans |-> splitIntoWordsPreservingPunctuation(PackedSpans[i])])

\* a token that is a double-quoted phrase of several words
IsQuotedPhrase(token) ==
    /\ Len(token) >= 2
    /\ token[1] = "\"" /\ token[Len(token)] = "\""
    /\ \E k \in DOMAIN token : token[k] = " "

\* C13: a double-quoted phrase that is one token and is no longer than the length budget
\* lies whole inside one returned chunk
C13_QuoteIntegrity ==
    Done =>
        LET chunks == UnderlyingText(result, options.enumerate)
        IN  \A t \in DOMAIN DetectedTokens :
                LET token == DetectedTokens[t]
                IN  (IsQuotedPhrase(token) /\ Len(token) <= FinalBudget) =>
                        \E i \in DOMAIN chunks : IndexOf(chunks[i], token) > 0

\* C15 as stated: with enumerate off, a token longer than the cap is one of the chunks,
\* uncut
C15_TokenEmittedUncut ==
    (Done /\ ~options.enumerate) =>
        \A t \in DOMAIN DetectedTokens :
            Len(DetectedTokens[t]) > Max(1, options.maximumLength) =>
                \E i \in DOMAIN result : result[i] = DetectedTokens[t]

\* the consecutive pieces of cap characters of a token, the last one possibly shorter
HardCutPieces(token, cap) ==
    [i \in 1..((Len(token) + cap - 1) \div cap) |->
        SubSeq(token, (i - 1) * cap + 1, Min(i * cap, Len(token)))]

\* C15 amended: with enumerate off no chunk is longer than the cap, and a text that is
\* one token longer than the cap, without a break character in it, is returned cut into
\* consecutive pieces of exactly cap characters, the last one possibly shorter
C15_OversizedTokenIsCut ==
    (Done /\ ~options.enumerate) =>
        LET cap == Max(1, options.maximumLength)
            tokens == splitIntoWordsPreservingPunctuation(rawText)
        IN  /\ \A i \in DOMAIN result : Len(result[i]) <= cap
            /\ (/\ Len(tokens) = 1
                /\ Len(tokens[1]) > cap
                /\ \A k \in DOMAIN tokens[1] : ~IsBreakCharacter(tokens[1][k]))
                   => result = HardCutPieces(tokens[1], cap)

\* C15 witness: a single token cut into a full piece and a shorter last piece
C15_Witness ==
    /\ Done /\ ~options.enumerate
    /\ Len(splitIntoWordsPreservingPunctuation(rawText)) = 1
    /\ Len(result) = 2
    /\ Len(result[1]) = options.maximumLength
    /\ Len(result[2]) < Len(result[1])
    /\ \A k \in DOMAIN rawText : ~IsBreakCharacter(rawText[k])

\* C16: a direct call of chunkByLength returns, for every cap: no piece it pushes is
\* empty and every iteration that stays in the loop leaves the remaining text strictly
\* shorter
C16_SplitterTerminates ==
    /\ [](\A i \in DOMAIN resultChunks : Len(resultChunks[i]) > 0)
    /\ [][(pc = "split" /\ pc' = "split") =>
            Len(remainingText') < Len(remainingText)]_vars

\* C20: buildSentences loses nothing: the returned sentences joined by single spaces are
\* the given tokens joined by single spaces, and with sentence breaking off there is
\* exactly one sentence
C20_NothingLost ==
    pc = "done" =>
        /\ Join(sentencesArray, <<" ">>) = Join(wordsArray, <<" ">>)
        /\ ~useSentenceBreak => Len(sentencesArray) = 1

\* C20 witness: three tokens returned as two sentences, the second one unfinished
C20_Witness ==
    /\ pc = "done" /\ useSentenceBreak
    /\ Len(wordsArray) = 3
    /\ Len(sentencesArray) = 2
    /\ index = 3 /\ Len(currentSentence) = 1

\* a step of the loop that takes the word at the index, and whether it ends the sentence
TakesWord == pc = "sentences" /\ useSentenceBreak /\ index' = index + 1
EndsSentence == Len(sentencesArray') = Len(sentencesArray) + 1

StrippedWord == stripTrailingWrappingCharacters(Word)

\* the stripped, case-folded token is a listed title, a single-letter initial or two or
\* more dotted initials
IsStrictAbbreviation(token) ==
    LET folded == ToLowerCase(stripTrailingWrappingCharacters(token))
    IN  \/ folded \in STRICT_NON_TERMINATING_ABBREVIATIONS
        \/ Len(folded) = 2 /\ IsLetter(folded[1]) /\ folded[2] = "."
        \/ /\ Len(folded) >= 4 /\ Len(folded) % 2 = 0
           /\ \A i \in DOMAIN folded :
                 IF i % 2 = 1 THEN IsLetter(folded[i]) ELSE folded[i] = "."

\* the stripped, case-folded token is a listed flexible abbreviation and not a strict one
IsFlexibleAbbreviation(token) ==
    /\ ToLowerCase(stripTrailingWrappingCharacters(token)) \in FLEXIBLE_ABBREVIATIONS
    /\ ~IsStrictAbbreviation(token)

NextAbsentOrEmpty == index + 1 >= Len(wordsArray) \/ wordsArray[index + 2] = <<>>
NextHasNoSignificantCharacter ==
    \A k \in DOMAIN NextWord : NextWord[k] \in LEADING_PUNCTUATION_TO_IGNORE
NextLeadIsUppercase ==
    \E k \in DOMAIN NextWord :
        /\ IsUpper(NextWord[k])
        /\ \A j \in 1..(k - 1) : NextWord[j] \in LEADING_PUNCTUATION_TO_IGNORE

C18_EllipsisEndsSentence ==
    [][(TakesWord /\ MatchesEllipsis(StrippedWord)) => EndsSentence]_vars

\* C18 amended: a token that, stripped, ends in . ! or ? and matches the ellipsis pattern
\* ends the sentence, whatever its position and whatever follows it
C18_TerminatedEllipsisEndsSentence ==
    [][(TakesWord /\ MatchesSentenceTerminator(StrippedWord) /\ MatchesEllipsis(StrippedWord))
            => EndsSentence]_vars

\* C18 witness: a token ending in three periods, not the last one, closed a sentence
C18_Witness ==
    /\ pc = "done" /\ useSentenceBreak
    /\ Len(sentencesArray) >= 2
    /\ \E i \in 1..(Len(wordsArray) - 1) :
          LET stripped == stripTrailingWrappingCharacters(wordsArray[i])
          IN  MatchesSentenceTerminator(stripped) /\ MatchesEllipsis(stripped)

\* C19: a token matching the ordinal-number pattern does not end the sentence when it is
\* the first token of the sentence being built, and ends it at any later position
C19_OrdinalRule ==
    [][(TakesWord /\ MatchesOrdinalNumber(StrippedWord)) =>
            (EndsSentence <=> Len(currentSentence) >= 1)]_vars

\* C19 witness: two ordinals in a row, the first kept open and the second ending the
\* sentence
C19_Witness ==
    /\ pc = "done" /\ useSentenceBreak
    /\ Len(wordsArray) >= 2
    /\ MatchesOrdinalNumber(wordsArray[1]) /\ MatchesOrdinalNumber(wordsArray[2])
    /\ Len(sentencesArray) >= 1
    /\ sentencesArray[1] = wordsArray[1] \o <<" ">> \o wordsArray[2]

\* ------------------------------------------------------------------------
\* One call of extractParagraphs, one action per iteration of its for loop
\* ------------------------------------------------------------------------
\* lines of a pasted text: blank and whitespace-only lines, plain lines in lowercase
\* and uppercase, terminated lines with and without a closing wrapper, an indented
\* line, list items, a quoted line, a digit and lines of punctuation only
LineSamples ==
    { <<>>, <<" ">>, <<"a">>, <<"B">>, <<"a", ".">>, <<"a", "!", ")">>,
      <<"\t", "a", ".">>, <<"-", " ", "a">>, <<"(", "B">>, <<"2">>, <<"-">>, <<"(">> }

ParagraphTexts == {Join(sample, <<"\n">>) : sample \in StringsOver(LineSamples, MaxLines)}

ParagraphsInit ==
    /\ pc = "paragraphs"
    /\ paragraphSource \in ParagraphTexts
    /\ lines = <<>>
    /\ lineNumber = 0
    /\ paragraphs = <<>>
    /\ currentParagraphLines = <<>>
    /\ previousLineBlank = FALSE
    /\ NoGetChunksCall
    /\ NoStatisticsCall
    /\ NoSplitterCall
    /\ NoSentencesCall
    /\ NoTokenizerCall
    /\ NoRichTextCall
    /\ NoControllerCall

\* a mutation of the early return: one empty paragraph for a blank text
ReturnOneEmptyParagraph ==
    /\ pc = "paragraphs"
    /\ Len(Trim(paragraphSource)) = 0
    /\ paragraphs' = << <<>> >>
    /\ pc' = "done"
    /\ UNCHANGED <<paragraphSource, lines, lineNumber, currentParagraphLines,
                   previousLineBlank>>
    /\ UNCHANGED <<getChunksVars, statisticsVars, splitterVars, sentenceVars, tokenizerVars, richTextVars, controllerVars>>

\* the text is blank: no paragraphs
ReturnNoParagraphs ==
    /\ pc = "paragraphs"
    /\ Len(Trim(paragraphSource)) = 0
    /\ paragraphs' = <<>>
    /\ pc' = "done"
    /\ UNCHANGED <<paragraphSource, lines, lineNumber, currentParagraphLines,
                   previousLineBlank>>
    /\ UNCHANGED <<getChunksVars, statisticsVars, splitterVars, sentenceVars, tokenizerVars, richTextVars, controllerVars>>

\* the separators are normalised and the text is split into lines
SplitIntoLines ==
    /\ pc = "paragraphs"
    /\ Len(Trim(paragraphSource)) > 0
    /\ lines' = Split(normalizeLineSeparators(ReplaceNbsp(paragraphSource)), "\n")
    /\ lineNumber' = 1
    /\ pc' = "lines"
    /\ UNCHANGED <<paragraphSource, paragraphs, currentParagraphLines, previousLineBlank>>
    /\ UNCHANGED <<getChunksVars, statisticsVars, splitterVars, sentenceVars, tokenizerVars, richTextVars, controllerVars>>

InLineLoop == pc = "lines" /\ lineNumber <= Len(lines)

\* normalizedLine of the current iteration
NormalizedLine == sanitizeLineContent(lines[lineNumber])

\* currentParagraphLines.join(" ").trim()
ClosedParagraph == Trim(Join(currentParagraphLines, <<" ">>))

\* a blank line closes the paragraph being built
BlankLine ==
    /\ InLineLoop
    /\ Len(NormalizedLine) = 0
    /\ paragraphs' = IF Len(currentParagraphLines) > 0
                     THEN Append(paragraphs, ClosedParagraph)
                     ELSE paragraphs
    /\ currentParagraphLines' = <<>>
    /\ previousLineBlank' = TRUE
    /\ lineNumber' = lineNumber + 1
    /\ UNCHANGED <<pc, paragraphSource, lines>>
    /\ UNCHANGED <<getChunksVars, statisticsVars, splitterVars, sentenceVars, tokenizerVars, richTextVars, controllerVars>>

\* a line that finds no paragraph being built begins one
FirstLineOfParagraph ==
    /\ InLineLoop
    /\ Len(NormalizedLine) > 0
    /\ Len(currentParagraphLines) = 0
    /\ currentParagraphLines' = <<NormalizedLine>>
    /\ previousLineBlank' = FALSE
    /\ lineNumber' = lineNumber + 1
    /\ UNCHANGED <<pc, paragraphSource, lines, paragraphs>>
    /\ UNCHANGED <<getChunksVars, statisticsVars, splitterVars, sentenceVars, tokenizerVars, richTextVars, controllerVars>>

StartsNewParagraph ==
    \/ previousLineBlank
    \/ shouldStartNewParagraph(currentParagraphLines[Len(currentParagraphLines)],
                               NormalizedLine)

\* the line closes the paragraph being built and begins the next
StartNewParagraph ==
    /\ InLineLoop
    /\ Len(NormalizedLine) > 0
    /\ Len(currentParagraphLines) > 0
    /\ StartsNewParagraph
    /\ paragraphs' = Append(paragraphs, ClosedParagraph)
    /\ currentParagraphLines' = <<NormalizedLine>>
    /\ previousLineBlank' = FALSE
    /\ lineNumber' = lineNumber + 1
    /\ UNCHANGED <<pc, paragraphSource, lines>>
    /\ UNCHANGED <<getChunksVars, statisticsVars, splitterVars, sentenceVars, tokenizerVars, richTextVars, controllerVars>>

\* the line continues the paragraph being built
JoinLine ==
    /\ InLineLoop
    /\ Len(NormalizedLine) > 0
    /\ Len(currentParagraphLines) > 0
    /\ ~StartsNewParagraph
    /\ currentParagraphLines' = Append(currentParagraphLines, NormalizedLine)
    /\ previousLineBlank' = FALSE
    /\ lineNumber' = lineNumber + 1
    /\ UNCHANGED <<pc, paragraphSource, lines, paragraphs>>
    /\ UNCHANGED <<getChunksVars, statisticsVars, splitterVars, sentenceVars, tokenizerVars, richTextVars, controllerVars>>

\* after the last line, the paragraph being built is closed and the list returned
ReturnParagraphs ==
    /\ pc = "lines"
    /\ lineNumber > Len(lines)
    /\ paragraphs' = IF Len(currentParagraphLines) > 0
                     THEN Append(paragraphs, ClosedParagraph)
                     ELSE paragraphs
    /\ pc' = "done"
    /\ UNCHANGED <<paragraphSource, lines, lineNumber, currentParagraphLines,
                   previousLineBlank>>
    /\ UNCHANGED <<getChunksVars, statisticsVars, splitterVars, sentenceVars, tokenizerVars, richTextVars, controllerVars>>

ParagraphsNext ==
    \/ ReturnNoParagraphs
    \/ SplitIntoLines
    \/ BlankLine
    \/ FirstLineOfParagraph
    \/ StartNewParagraph
    \/ JoinLine
    \/ ReturnParagraphs

ParagraphsSpec == ParagraphsInit /\ [][ParagraphsNext]_vars

\* the lines of the text as the loop sees them, detabbed and trimmed
SanitizedLines == [i \in DOMAIN lines |-> sanitizeLineContent(lines[i])]

\* the first line's last non-wrapping character is one of . ! ?
EndsWithTerminator(line) ==
    LET stripped == stripTrailingWrappingCharacters(line)
    IN  Len(stripped) > 0 /\ stripped[Len(stripped)] \in {".", "!", "?"}

\* the second line's first significant character is alphanumeric and is its own
\* uppercase form
BeginsUppercase(line) ==
    LET lead == getFirstSignificantCharacter(line)
    IN  (IsLetter(lead) \/ IsDigit(lead)) /\ ToUpperChar(lead) = lead

SeparatedByRule(first, second) ==
    \/ MatchesListMarker(second)
    \/ EndsWithTerminator(first) /\ BeginsUppercase(second)

\* line i begins a paragraph: it is the first non-blank line, follows a blank line,
\* or is separated from the line before it by the rule
BeginsParagraph(sanitized, i) ==
    /\ Len(sanitized[i]) > 0
    /\ \/ i = 1
       \/ Len(sanitized[i - 1]) = 0
       \/ SeparatedByRule(sanitized[i - 1], sanitized[i])

\* the paragraphs that begin at line i or later, each the lines from its beginning up
\* to the next blank line or beginning, joined with single spaces
RECURSIVE ParagraphsFrom(_, _)
ParagraphsFrom(sanitized, i) ==
    IF i > Len(sanitized) THEN <<>>
    ELSE IF ~BeginsParagraph(sanitized, i) THEN ParagraphsFrom(sanitized, i + 1)
    ELSE LET last == CHOOSE j \in i..Len(sanitized) :
                        /\ \A k \in (i + 1)..j :
                              Len(sanitized[k]) > 0 /\ ~BeginsParagraph(sanitized, k)
                        /\ \/ j = Len(sanitized)
                           \/ Len(sanitized[j + 1]) = 0
                           \/ BeginsParagraph(sanitized, j + 1)
         IN  <<Join(SubSeq(sanitized, i, last), <<" ">>)>>
                 \o ParagraphsFrom(sanitized, last + 1)

\* C21: two consecutive non-blank lines are in different paragraphs exactly when the
\* second matches the list-marker pattern, or the first ends, wrapping characters
\* aside, with one of . ! ? and the second's first significant character is
\* alphanumeric and uppercase (a digit being its own uppercase form); otherwise they
\* are joined with one space; a blank line between two lines always separates them
C21_ParagraphRule ==
    Done => paragraphs = ParagraphsFrom(SanitizedLines, 1)

\* C21 witness: one pair of lines separated by the terminator rule, the next joined
C21_Witness ==
    /\ Done
    /\ Len(lines) = 3
    /\ \A i \in DOMAIN lines : Len(SanitizedLines[i]) > 0
    /\ ~MatchesListMarker(SanitizedLines[2])
    /\ SeparatedByRule(SanitizedLines[1], SanitizedLines[2])
    /\ ~SeparatedByRule(SanitizedLines[2], SanitizedLines[3])
    /\ Len(paragraphs) = 2

\* C22: every returned paragraph is non-empty and has no leading or trailing
\* whitespace, and a blank or whitespace-only text yields the empty sequence
C22_ParagraphsTrimmed ==
    Done =>
        /\ \A i \in DOMAIN paragraphs :
              Len(paragraphs[i]) > 0 /\ Trim(paragraphs[i]) = paragraphs[i]
        /\ Len(Trim(paragraphSource)) = 0 => paragraphs = <<>>

\* C22 witness: a text of several blank and whitespace-only lines returned no paragraph
C22_Witness ==
    /\ Done
    /\ Len(paragraphSource) > 1
    /\ Len(Trim(paragraphSource)) = 0
    /\ paragraphs = <<>>

\* the 0-based indices i with 0 < i <= cap at which the remaining text has a space or
\* one of , . ! ? ;
CleanBreaks ==
    {i \in 1..maximumLength :
        i < Len(remainingText) /\ remainingText[i + 1] \in {" ", ",", ".", "!", "?", ";"}}

LargestCleanBreak == CHOOSE i \in CleanBreaks : \A j \in CleanBreaks : j <= i

\* C23: with a cap of at least 1, while the remaining text is longer than the cap the
\* next piece is the remaining text cut at the largest index i, 0 < i <= cap, that
\* holds a space or one of , . ! ? ; with both sides trimmed; when there is no such
\* index the piece is exactly the first cap characters; a remainder that fits the cap
\* is pushed as the last piece
C23_PieceRule ==
    [][(pc = "split" /\ maximumLength >= 1 /\ Len(remainingText) > 0) =>
          IF Len(remainingText) <= maximumLength
          THEN /\ resultChunks' = Append(resultChunks, remainingText)
               /\ pc' = "done"
          ELSE IF CleanBreaks # {}
          THEN /\ resultChunks' =
                     Append(resultChunks,
                            Trim(SubSeq(remainingText, 1, LargestCleanBreak)))
               /\ remainingText' =
                     Trim(SubSeq(remainingText, LargestCleanBreak + 1, Len(remainingText)))
               /\ pc' = "split"
          ELSE /\ resultChunks' =
                     Append(resultChunks, SubSeq(remainingText, 1, maximumLength))
               /\ remainingText' =
                     Trim(SubSeq(remainingText, maximumLength + 1, Len(remainingText)))
               /\ pc' = "split"]_vars

\* C23 witness: a text cut at a clean break below the cap, the break being a space
\* that the trimming removed, and ended by a remainder that fits
C23_Witness ==
    /\ Done
    /\ maximumLength >= 2
    /\ Len(resultChunks) >= 2
    /\ Len(resultChunks[1]) < maximumLength
    /\ Len(Flatten(resultChunks)) < Len(Trim(CollapseWhitespace(sentenceText)))

\* the chunks read as a packing of the sentences in which no chunk of whole sentences
\* is followed by a chunk whose first whole sentence would still have fitted it
RECURSIVE GreedyMaximal(_, _, _)
GreedyMaximal(chunks, sentences, cap) ==
    IF Len(sentences) = 0 THEN Len(chunks) = 0
    ELSE IF Len(chunks) = 0 THEN FALSE
    ELSE IF Len(sentences[1]) <= cap
    THEN \E k \in 1..Len(sentences) :
            /\ \A j \in 1..k : Len(sentences[j]) <= cap
            /\ chunks[1] = Join(SubSeq(sentences, 1, k), <<" ">>)
            /\ (k < Len(sentences) /\ Len(sentences[k + 1]) <= cap) =>
                  Len(chunks[1]) + 1 + Len(sentences[k + 1]) > cap
            /\ GreedyMaximal(Tail(chunks), SubSeq(sentences, k + 1, Len(sentences)), cap)
    ELSE \E m \in 1..Len(chunks) :
            /\ Squeeze(Flatten(SubSeq(chunks, 1, m))) = Squeeze(sentences[1])
            /\ GreedyMaximal(SubSeq(chunks, m + 1, Len(chunks)), Tail(sentences), cap)

\* the sentences the packer detects in one span
SentencesOfSpan(span) ==
    LET tokens == splitIntoWordsPreservingPunctuation(span)
    IN  IF Len(tokens) = 0 THEN <<>>
        ELSE buildSentences(tokens, options.breakOnSentences)

\* the chunks split into consecutive groups, one per span, each packed maximally
RECURSIVE GreedyMaximalWithinSpans(_, _, _)
GreedyMaximalWithinSpans(chunks, spans, cap) ==
    IF Len(spans) = 0 THEN Len(chunks) = 0
    ELSE \E k \in 0..Len(chunks) :
            /\ GreedyMaximal(SubSeq(chunks, 1, k), SentencesOfSpan(spans[1]), cap)
            /\ GreedyMaximalWithinSpans(SubSeq(chunks, k + 1, Len(chunks)),
                                        Tail(spans), cap)

\* C24: with enumerate off, whenever a chunk made of whole sentences is followed by a
\* chunk that begins with a whole sentence that fits the cap, the earlier chunk, one
\* space and that sentence together exceed the cap
C24_GreedyMaximal ==
    (Done /\ ~options.enumerate) =>
        GreedyMaximal(result, DetectedSentences, Max(1, options.maximumLength))

\* C24 amended: the same inside each span the packer works on, a span being a
\* paragraph when breakOnParagraphs is on and the whole text otherwise; the last chunk
\* of a paragraph is not filled up with the first sentence of the next paragraph
C24_GreedyMaximalWithinSpans ==
    (Done /\ ~options.enumerate) =>
        GreedyMaximalWithinSpans(result, PackedSpans, Max(1, options.maximumLength))

\* C24 witness: two sentences that fit the cap one by one and not together
C24_Witness ==
    /\ Done /\ ~options.enumerate /\ options.breakOnSentences
    /\ Len(PackedSpans) = 1
    /\ Len(DetectedSentences) = 2
    /\ \A i \in DOMAIN DetectedSentences :
          Len(DetectedSentences[i]) <= Max(1, options.maximumLength)
    /\ result = DetectedSentences

\* ------------------------------------------------------------------------
\* One call of getChunks on a text of many short words
\* ------------------------------------------------------------------------
\* up to MaxLongWords one-letter words joined by single spaces
LongTexts ==
    {Join([i \in 1..n |-> <<"a">>], <<" ">>) : n \in 0..MaxLongWords}

LongInit ==
    /\ rawText \in LongTexts
    /\ options \in ThreadingOptions
    /\ pc = "start"
    /\ effectiveMaximumLength = 0
    /\ baseChunks = <<>>
    /\ result = <<>>
    /\ iterations = 0
    /\ OtherCallsIdle

LongSpec == LongInit /\ [][Next]_vars

\* C25: the loop of getChunks performs at most 2 packing passes before the effective
\* length stops changing
C25_AtMostTwoPasses == iterations <= 2

\* C25 amended: the loop performs at most one packing pass more than the returned
\* chunk count has decimal digits
C25_PassesBoundedByDigits ==
    (Done /\ options.enumerate) =>
        iterations <= 1 + Len(NumberToString(Len(result)))

\* C25 witness: a call that returned ten chunks or more after three passes, the count
\* having gained a digit under the reduced budget
C25_Witness ==
    /\ Done /\ options.enumerate
    /\ iterations = 3
    /\ Len(result) >= 10

\* ------------------------------------------------------------------------
\* One call of splitIntoWordsPreservingPunctuation
\* ------------------------------------------------------------------------
TokenizerAlphabet == {"a", " ", "\"", "\n"}
TokenizerTexts == StringsOver(TokenizerAlphabet, MaxTokenizerLen)

TokenizerInit ==
    /\ pc = "tokenize"
    /\ textString \in TokenizerTexts
    /\ wordTokens = <<>>
    /\ NoGetChunksCall
    /\ NoStatisticsCall
    /\ NoSplitterCall
    /\ NoSentencesCall
    /\ NoParagraphsCall
    /\ NoRichTextCall
    /\ NoControllerCall

SplitIntoWords ==
    /\ pc = "tokenize"
    /\ wordTokens' = splitIntoWordsPreservingPunctuation(textString)
    /\ pc' = "done"
    /\ UNCHANGED <<textString, getChunksVars, statisticsVars, splitterVars, sentenceVars,
                   paragraphVars, richTextVars, controllerVars>>

TokenizerNext == SplitIntoWords

TokenizerSpec == TokenizerInit /\ [][TokenizerNext]_vars

\* the number of double-quote characters before position i of a text
QuotesBefore(text, i) == Cardinality({j \in 1..(i - 1) : text[j] = "\""})

\* the positions of the spaces that an even number of double quotes precede
SeparatingSpaces(text) ==
    {i \in DOMAIN text : text[i] = " " /\ QuotesBefore(text, i) % 2 = 0}

\* the pieces of a text between the given positions
RECURSIVE CutAt(_, _)
CutAt(text, positions) ==
    IF positions = {} THEN <<text>>
    ELSE LET first == CHOOSE i \in positions : \A j \in positions : i <= j
         IN  <<SubSeq(text, 1, first - 1)>>
                 \o CutAt(SubSeq(text, first + 1, Len(text)),
                          {i - first : i \in positions \ {first}})

\* C26: a space of the whitespace-normalised text separates two tokens exactly when an
\* even number of double quotes precede it, so a quoted phrase is one token and an
\* unmatched quote extends its token to the end of the text; no token is empty
C26_TokenizerRule ==
    Done =>
        LET normalizedText == NormalizeForWords(textString)
        IN  /\ wordTokens = IF Len(normalizedText) = 0 THEN <<>>
                            ELSE CutAt(normalizedText, SeparatingSpaces(normalizedText))
            /\ \A i \in DOMAIN wordTokens : Len(wordTokens[i]) > 0

\* C26 witness: a text with a space inside a quoted phrase and a space outside it
C26_Witness ==
    /\ Done
    /\ Len(wordTokens) = 2
    /\ \E i \in DOMAIN wordTokens : \E k \in DOMAIN wordTokens[i] : wordTokens[i][k] = " "

\* the packing of the input at the budget that a count of N chunks leaves:
\* max(1, maximumLength - overhead(N)), overhead(N) being the length of " (N/N)"
PackingAtBudgetOf(total) ==
    buildBaseChunks(rawText,
        [options EXCEPT !.maximumLength =
            Max(1, options.maximumLength - Len(EnumerationSuffix(total, total)))])

\* C27: when a call with enumerate on returns N chunks, N > 0, the base chunks they
\* were made from are exactly the packing of the input at max(1, maximumLength -
\* overhead(N)): the budget of the final pass is the one its own count leaves
C27_BudgetConsistent ==
    (Done /\ options.enumerate /\ Len(result) > 0) =>
        /\ Len(result) = Len(baseChunks)
        /\ effectiveMaximumLength =
              Max(1, options.maximumLength
                        - Len(EnumerationSuffix(Len(result), Len(result))))
        /\ baseChunks = PackingAtBudgetOf(Len(result))

\* C27 witness: a call whose reduced budget gave more chunks than the full maximum
\* length would have
C27_Witness ==
    /\ Done /\ options.enumerate
    /\ effectiveMaximumLength > 1
    /\ Len(result) > Len(buildBaseChunks(rawText, options))

\* ------------------------------------------------------------------------
\* Rich text: one call of getChunks on the placeholder text of a document with
\* images, followed by buildChunkContents
\* ------------------------------------------------------------------------
IMAGE_PREFIX == <<"[", "[", "I", "M", "A", "G", "E", ":">>
IMAGE_SUFFIX == <<"]", "]">>
IMAGE_PLAIN_TEXT_PLACEHOLDER == <<"[", "I", "m", "a", "g", "e", "]">>

createPlaceholderToken(imageIndex) ==
    IMAGE_PREFIX \o NumberToString(imageIndex) \o IMAGE_SUFFIX

\* the length of the match of the placeholder pattern that begins at a position of a
\* text, 0 when none begins there: the prefix, one digit or more, the suffix
PlaceholderMatchLength(text, from) ==
    LET afterPrefix == from + Len(IMAGE_PREFIX)
        digitCount ==
            IF afterPrefix <= Len(text) /\ IsDigit(text[afterPrefix])
            THEN CHOOSE d \in 1..(Len(text) - afterPrefix + 1) :
                    /\ \A k \in 0..(d - 1) : IsDigit(text[afterPrefix + k])
                    /\ afterPrefix + d > Len(text) \/ ~IsDigit(text[afterPrefix + d])
            ELSE 0
        afterDigits == afterPrefix + digitCount
    IN  IF /\ afterPrefix - 1 <= Len(text)
           /\ SubSeq(text, from, afterPrefix - 1) = IMAGE_PREFIX
           /\ digitCount > 0
           /\ afterDigits + Len(IMAGE_SUFFIX) - 1 <= Len(text)
           /\ SubSeq(text, afterDigits, afterDigits + Len(IMAGE_SUFFIX) - 1) = IMAGE_SUFFIX
        THEN Len(IMAGE_PREFIX) + digitCount + Len(IMAGE_SUFFIX)
        ELSE 0

\* the while loop of translatePlaceholderText from a position of the text: the text
\* around the matches, and an image chunk for each match that names a known image
RECURSIVE TranslateFrom(_, _, _)
TranslateFrom(placeholderText, from, records) ==
    IF from > Len(placeholderText)
    THEN [plainText |-> <<>>, textWithoutImages |-> <<>>, imageChunks |-> <<>>]
    ELSE LET matched == PlaceholderMatchLength(placeholderText, from)
             placeholderToken == SubSeq(placeholderText, from, from + matched - 1)
             rest == TranslateFrom(placeholderText,
                                   from + (IF matched > 0 THEN matched ELSE 1), records)
             withText(segment) ==
                 [plainText |-> segment \o rest.plainText,
                  textWithoutImages |-> segment \o rest.textWithoutImages,
                  imageChunks |-> rest.imageChunks]
         IN  IF matched = 0 THEN withText(<<placeholderText[from]>>)
             ELSE IF \E n \in DOMAIN records : records[n] = placeholderToken
             THEN [rest EXCEPT !.imageChunks =
                      << [variant |-> "image", image |-> placeholderToken] >> \o @]
             ELSE withText(IMAGE_PLAIN_TEXT_PLACEHOLDER)

translatePlaceholderText(placeholderText, records) ==
    TranslateFrom(placeholderText, 1, records)

\* a text chunk when text is left beside the images, then the image chunks
buildChunkContent(placeholderText, records) ==
    LET translation == translatePlaceholderText(placeholderText, records)
    IN  (IF Len(translation.textWithoutImages) > 0
         THEN << [variant |-> "text", plainText |-> translation.textWithoutImages] >>
         ELSE <<>>)
        \o translation.imageChunks

buildChunkContents(placeholderChunks, records) ==
    Flatten([i \in DOMAIN placeholderChunks |->
                buildChunkContent(placeholderChunks[i], records)])

\* documents of the editor: letters, spaces and images in any order
DocumentItems == {"a", " ", "image"}
Documents == StringsOver(DocumentItems, MaxDocumentItems)

ImagesBefore(document, position) ==
    Cardinality({k \in 1..(position - 1) : document[k] = "image"})

\* getDocumentSnapshot: every image replaced by the placeholder token of its index
PlaceholderTextOf(document) ==
    Flatten([k \in DOMAIN document |->
                IF document[k] = "image"
                THEN createPlaceholderToken(ImagesBefore(document, k))
                ELSE <<document[k]>>])

ImageRecordsOf(document) ==
    [n \in 1..ImagesBefore(document, Len(document) + 1) |-> createPlaceholderToken(n - 1)]

ImageOptions ==
    [maximumLength : 1..MaxImageLimit, breakOnSentences : BOOLEAN,
     breakOnParagraphs : BOOLEAN, enumerate : BOOLEAN]

RichTextInit ==
    /\ \E document \in Documents :
          /\ rawText = PlaceholderTextOf(document)
          /\ imageRecords = ImageRecordsOf(document)
    /\ options \in ImageOptions
    /\ pc = "start"
    /\ effectiveMaximumLength = 0
    /\ baseChunks = <<>>
    /\ result = <<>>
    /\ iterations = 0
    /\ renderableChunks = <<>>
    /\ NoStatisticsCall
    /\ NoSplitterCall
    /\ NoSentencesCall
    /\ NoParagraphsCall
    /\ NoTokenizerCall
    /\ NoControllerCall

\* the chunks returned by getChunks are turned into renderable chunks
BuildChunkContents ==
    /\ pc = "done"
    /\ renderableChunks' = buildChunkContents(result, imageRecords)
    /\ pc' = "rendered"
    /\ UNCHANGED <<imageRecords, getChunksVars, statisticsVars, splitterVars, sentenceVars,
                   paragraphVars, tokenizerVars, controllerVars>>

RichTextNext == Next \/ BuildChunkContents

RichTextSpec == RichTextInit /\ [][RichTextNext]_vars

\* the number of positions of a text at which a token begins
Occurrences(text, token) ==
    Cardinality({k \in 1..(Len(text) - Len(token) + 1) :
                    SubSeq(text, k, k + Len(token) - 1) = token})

\* the images of the image chunks, in order
RenderedImages ==
    LET imageChunks == SelectSeq(renderableChunks, LAMBDA chunk : chunk.variant = "image")
    IN  [n \in DOMAIN imageChunks |-> imageChunks[n].image]

\* C28: every image placeholder of the placeholder text is intact in exactly one
\* returned chunk, so buildChunkContents gives exactly one image chunk per image, in
\* document order
C28_PlaceholdersIntact ==
    pc = "rendered" =>
        /\ \A n \in DOMAIN imageRecords :
              Cardinality({i \in DOMAIN result :
                              Occurrences(result[i], imageRecords[n]) = 1}) = 1
        /\ RenderedImages = imageRecords

\* documents whose images come out whole: one image chunk per image
C28_ImagesRendered ==
    /\ pc = "rendered"
    /\ Len(imageRecords) >= 2
    /\ RenderedImages = imageRecords

\* ------------------------------------------------------------------------
\* ThreaderController: the paragraph toggle, re-chunking and copy numbering
\* ------------------------------------------------------------------------
\* The editor holds text only (no images), so placeholderText and plainText
\* of a snapshot are the same string and images is empty.  A snapshot is kept
\* as a one-element sequence, null as the empty sequence.  The sentence and
\* enumeration toggles stay at their constructed values.
EditorTexts == {<<>>, <<"a">>, <<"a", " ", "B">>, <<"a", "\n", "\n", "B">>}

\* lengths the presets and the custom field can select
ActiveLengths == {1, DEFAULT_LENGTHS_TWITTER}

ControllerInit ==
    /\ pc = "constructed"
    /\ NoGetChunksCall
    /\ NoStatisticsCall
    /\ NoSplitterCall
    /\ NoSentencesCall
    /\ NoParagraphsCall
    /\ NoTokenizerCall
    /\ NoRichTextCall
    /\ NoControllerCall

\* initialize: the paragraph toggle is made unavailable, the editor is empty
Initialize ==
    /\ pc = "constructed"
    /\ pc' = "ready"
    /\ toggleDisabled' = TRUE
    /\ toggleChecked' = FALSE
    /\ editorText' = <<>>
    /\ UNCHANGED <<currentDocumentSnapshot, state, autoRechunkEnabled, rechunkTimeoutId,
                   pendingAnimationFrame, renderedChunks, pendingWrites, chunkOptions>>
    /\ UNCHANGED <<getChunksVars, statisticsVars, splitterVars, sentenceVars,
                   paragraphVars, tokenizerVars, richTextVars>>

hasRenderableContent(plainText) == Len(Trim(plainText)) > 0

\* the containers of the list leave the document: a write still in flight for
\* one of them keeps its closure over a detached container
Detached(writes) == {[w EXCEPT !.detached = TRUE] : w \in writes}

\* chunkListView.clear
ClearList ==
    /\ pendingAnimationFrame' = 0
    /\ renderedChunks' = <<>>
    /\ pendingWrites' = Detached(pendingWrites)

\* executeChunking, entered with the state object `next`
ExecuteChunking(next, length) ==
    LET plainText == IF currentDocumentSnapshot = <<>> THEN editorText
                     ELSE currentDocumentSnapshot[1]
        passedOptions == [maximumLength |-> length,
                          breakOnSentences |-> next.breakOnSentences,
                          enumerate |-> next.enumerate,
                          breakOnParagraphs |-> next.breakOnParagraphs]
        chunkContents == buildChunkContents(getChunks(plainText, passedOptions), <<>>)
    IN  /\ currentDocumentSnapshot' = <<plainText>>
        /\ state' = [next EXCEPT !.copySequenceNumber = 0]
        /\ autoRechunkEnabled' = TRUE
        /\ IF ~hasRenderableContent(plainText)
           THEN ClearList /\ chunkOptions' = chunkOptions
           ELSE /\ chunkOptions' = <<passedOptions>>
                /\ renderedChunks' = <<>>
                /\ pendingWrites' = Detached(pendingWrites)
                /\ pendingAnimationFrame' = Len(chunkContents)

rechunkWithCurrentState(next) ==
    IF autoRechunkEnabled
    THEN ExecuteChunking(next, next.activeLength)
    ELSE /\ state' = next
         /\ UNCHANGED <<currentDocumentSnapshot, autoRechunkEnabled, pendingAnimationFrame,
                        renderedChunks, pendingWrites, chunkOptions>>

\* the input handler leaves breakOnParagraphs as it was
KeptBreakOnParagraphs(hasMultipleParagraphs) == state.breakOnParagraphs

\* the input handler's reset of breakOnParagraphs
ResetBreakOnParagraphs(hasMultipleParagraphs) ==
    IF ~hasMultipleParagraphs /\ state.breakOnParagraphs THEN FALSE
    ELSE state.breakOnParagraphs

\* the editor's input event: the whole handler up to the scheduled timeout
OnInput ==
    /\ pc = "ready"
    /\ \E typed \in EditorTexts :
        LET hasMultipleParagraphs == calculateStatistics(typed).paragraphs > 1
        IN  /\ editorText' = typed
            /\ currentDocumentSnapshot' = <<typed>>
            /\ toggleDisabled' = ~hasMultipleParagraphs
            /\ toggleChecked' = IF hasMultipleParagraphs THEN toggleChecked ELSE FALSE
            /\ state' = [state EXCEPT
                            !.breakOnParagraphs = ResetBreakOnParagraphs(hasMultipleParagraphs)]
            /\ rechunkTimeoutId' = "scheduled"
    /\ UNCHANGED <<pc, autoRechunkEnabled, pendingAnimationFrame, renderedChunks,
                   pendingWrites, chunkOptions>>
    /\ UNCHANGED <<getChunksVars, statisticsVars, splitterVars, sentenceVars,
                   paragraphVars, tokenizerVars, richTextVars>>

\* the timeout the last input event scheduled
RechunkTimeout ==
    /\ pc = "ready"
    /\ rechunkTimeoutId = "scheduled"
    /\ rechunkTimeoutId' = "fired"
    /\ IF ~hasRenderableContent(currentDocumentSnapshot[1])
       THEN /\ ClearList
            /\ state' = [state EXCEPT !.copySequenceNumber = 0]
            /\ UNCHANGED <<currentDocumentSnapshot, autoRechunkEnabled, chunkOptions>>
       ELSE rechunkWithCurrentState(state)
    /\ UNCHANGED <<pc, editorText, toggleDisabled, toggleChecked>>
    /\ UNCHANGED <<getChunksVars, statisticsVars, splitterVars, sentenceVars,
                   paragraphVars, tokenizerVars, richTextVars>>

\* a change event of the paragraph toggle; a disabled checkbox sends none
OnToggleChange ==
    /\ pc = "ready"
    /\ ~toggleDisabled
    /\ toggleChecked' = ~toggleChecked
    /\ rechunkWithCurrentState([state EXCEPT !.breakOnParagraphs = ~toggleChecked])
    /\ UNCHANGED <<pc, editorText, toggleDisabled, rechunkTimeoutId>>
    /\ UNCHANGED <<getChunksVars, statisticsVars, splitterVars, sentenceVars,
                   paragraphVars, tokenizerVars, richTextVars>>

\* a preset button (or the custom button with a valid value)
OnPresetSelected ==
    /\ pc = "ready"
    /\ \E length \in ActiveLengths :
        ExecuteChunking([state EXCEPT !.activeLength = length], length)
    /\ UNCHANGED <<pc, editorText, toggleDisabled, toggleChecked, rechunkTimeoutId>>
    /\ UNCHANGED <<getChunksVars, statisticsVars, splitterVars, sentenceVars,
                   paragraphVars, tokenizerVars, richTextVars>>

\* the animation frame renderChunks requested: the containers are built
AnimationFrame ==
    /\ pc = "ready"
    /\ pendingAnimationFrame > 0
    /\ renderedChunks' = [i \in 1..pendingAnimationFrame |->
                              [copiedOrder |-> 0, disabled |-> FALSE]]
    /\ pendingAnimationFrame' = 0
    /\ UNCHANGED <<pc, editorText, currentDocumentSnapshot, toggleDisabled, toggleChecked,
                   state, autoRechunkEnabled, rechunkTimeoutId, pendingWrites, chunkOptions>>
    /\ UNCHANGED <<getChunksVars, statisticsVars, splitterVars, sentenceVars,
                   paragraphVars, tokenizerVars, richTextVars>>

\* handleCopyRequest: a click on an enabled copy button starts clipboard.write,
\* or writeText at once where ClipboardItem is not supported
HandleCopyRequest ==
    /\ pc = "ready"
    /\ Cardinality(pendingWrites) < MaxPendingWrites
    /\ \E i \in DOMAIN renderedChunks, stage \in {"write", "writeText"} :
        /\ ~renderedChunks[i].disabled
        /\ pendingWrites' = pendingWrites \cup
                              {[chunk |-> i, stage |-> stage, detached |-> FALSE]}
    /\ UNCHANGED <<pc, editorText, currentDocumentSnapshot, toggleDisabled, toggleChecked,
                   state, autoRechunkEnabled, rechunkTimeoutId, pendingAnimationFrame,
                   renderedChunks, chunkOptions>>
    /\ UNCHANGED <<getChunksVars, statisticsVars, splitterVars, sentenceVars,
                   paragraphVars, tokenizerVars, richTextVars>>

\* markChunkAsCopied on a container that is still in the document
markChunkAsCopied(list, w, copyOrder) ==
    IF w.detached THEN list
    ELSE [list EXCEPT ![w.chunk] = [copiedOrder |-> copyOrder, disabled |-> TRUE]]

\* a clipboard promise resolves: markSuccess
MarkSuccess ==
    /\ pc = "ready"
    /\ state.copySequenceNumber < MaxCopies
    /\ \E w \in pendingWrites :
        /\ pendingWrites' = pendingWrites \ {w}
        /\ state' = [state EXCEPT !.copySequenceNumber = @ + 1]
        /\ renderedChunks' = markChunkAsCopied(renderedChunks, w,
                                               state.copySequenceNumber + 1)
    /\ UNCHANGED <<pc, editorText, currentDocumentSnapshot, toggleDisabled, toggleChecked,
                   autoRechunkEnabled, rechunkTimeoutId, pendingAnimationFrame, chunkOptions>>
    /\ UNCHANGED <<getChunksVars, statisticsVars, splitterVars, sentenceVars,
                   paragraphVars, tokenizerVars, richTextVars>>

\* a clipboard promise rejects: write falls back to writeText, writeText gives up
WriteFails ==
    /\ pc = "ready"
    /\ \E w \in pendingWrites :
        pendingWrites' = IF w.stage = "write"
                         THEN (pendingWrites \ {w}) \cup {[w EXCEPT !.stage = "writeText"]}
                         ELSE pendingWrites \ {w}
    /\ UNCHANGED <<pc, editorText, currentDocumentSnapshot, toggleDisabled, toggleChecked,
                   state, autoRechunkEnabled, rechunkTimeoutId, pendingAnimationFrame,
                   renderedChunks, chunkOptions>>
    /\ UNCHANGED <<getChunksVars, statisticsVars, splitterVars, sentenceVars,
                   paragraphVars, tokenizerVars, richTextVars>>

\* the 2000 ms timeout of markChunkAsCopied re-enables the button
ButtonTimeout ==
    /\ pc = "ready"
    /\ \E i \in DOMAIN renderedChunks :
        /\ renderedChunks[i].disabled
        /\ renderedChunks' = [renderedChunks EXCEPT ![i].disabled = FALSE]
    /\ UNCHANGED <<pc, editorText, currentDocumentSnapshot, toggleDisabled, toggleChecked,
                   state, autoRechunkEnabled, rechunkTimeoutId, pendingAnimationFrame,
                   pendingWrites, chunkOptions>>
    /\ UNCHANGED <<getChunksVars, statisticsVars, splitterVars, sentenceVars,
                   paragraphVars, tokenizerVars, richTextVars>>

ControllerNext ==
    \/ Initialize
    \/ OnInput
    \/ RechunkTimeout
    \/ OnToggleChange
    \/ OnPresetSelected
    \/ AnimationFrame
    \/ HandleCopyRequest
    \/ MarkSuccess
    \/ WriteFails
    \/ ButtonTimeout

ControllerSpec == ControllerInit /\ [][ControllerNext]_vars

HasMultipleParagraphs(plainText) == calculateStatistics(plainText).paragraphs > 1

\* C29: once the controller is initialized, the paragraph toggle is enabled
\* exactly when the editor's text has more than one paragraph; a disabled
\* toggle is unchecked and the state's breakOnParagraphs is false; and every
\* chunking that passes breakOnParagraphs works on a text of several paragraphs.
C29_ToggleFollowsParagraphs ==
    /\ [](pc = "ready" =>
            /\ toggleDisabled = ~HasMultipleParagraphs(editorText)
            /\ toggleDisabled => (~toggleChecked /\ ~state.breakOnParagraphs))
    /\ [][(chunkOptions' # chunkOptions /\ chunkOptions'[1].breakOnParagraphs)
            => HasMultipleParagraphs(currentDocumentSnapshot'[1])]_vars

\* paragraph breaking was used on a two-paragraph text, then the text was
\* replaced by a single paragraph
C29_Witness ==
    /\ pc = "ready"
    /\ chunkOptions # <<>>
    /\ chunkOptions[1].breakOnParagraphs
    /\ Len(editorText) > 0
    /\ toggleDisabled
    /\ ~state.breakOnParagraphs

\* the largest copy-order number shown on the rendered list, 0 if none
LargestShownOrder ==
    LET shown == {renderedChunks[i].copiedOrder : i \in DOMAIN renderedChunks}
    IN  IF shown = {} THEN 0 ELSE CHOOSE n \in shown : \A m \in shown : m <= n

\* C30: the copy-order numbers of the rendered list count the successful
\* copies of that list: the number the next success will show follows the
\* largest number the list shows, whatever writes were in flight at a re-chunk.
C30_NumbersCountCurrentList ==
    pc = "ready" => state.copySequenceNumber = LargestShownOrder

====
